---- MODULE Spec2Model ----
(***************************************************************************)
(* multilog: a multi-destination structured logger.                        *)
(*                                                                         *)
(* The model follows src/src/multilog: the shared core (_core.py), the     *)
(* synchronous Logger (logger.py), the AsyncLogger that offloads the core  *)
(* to worker threads (async_logger.py), the sink base class                *)
(* (sinks/base.py) and the Betterstack sink (sinks/betterstack.py).        *)
(*                                                                         *)
(* A payload and a context are functions from key strings to values.       *)
(* A log call is a record that walks through                               *)
(*   unissued -> submitted -> dispatch -> finished -> returned             *)
(* (a synchronous call is built in the caller's thread and goes straight   *)
(* to dispatch; an asynchronous one is built by the worker thread).        *)
(***************************************************************************)
EXTENDS Integers, Sequences, FiniteSets, TLC

VARIABLES
    mode,             \* "sync": a Logger was constructed, "async": an AsyncLogger
    sinks,            \* _LoggerCore.sinks: the ordered list of sink objects
    default_context,  \* _LoggerCore.default_context
    calls,            \* the log calls made so far, by call number
    received,         \* per sink, the payloads its _emit was handed, in order
    stderr,           \* the diagnostic stream written by _dispatch and close
    now,              \* the clock as _build_payload reads it, in epoch milliseconds
    ctxOp,            \* history: the last context operation, its arguments and its outcome
    budget,           \* the context operations and close calls the caller may still make
    closer,           \* the close call in progress: its position in the sink list
    closeLog,         \* history: what close did to each sink, in order
    client,           \* per sink, BetterstackSink._client (0 is None)
    clients,          \* every HTTP client created so far, with its state
    probe             \* the last call of a function of the library made on its own:
                      \* its name, its arguments and what it returned or raised

vars == <<mode, sinks, default_context, calls, received, stderr, now,
          ctxOp, budget, closer, closeLog, client, clients, probe>>

----------------------------------------------------------------------------
(* Bounds of the model *)

\* Sinks in the logger's list.
NumSinks == 2

\* Log calls per behaviour.
MaxCalls == 2

\* Context operations per behaviour.
MaxCtxOps == 2

\* Close calls per behaviour.
MaxCloses == 2

\* Log calls per behaviour of SpecClose.
MaxCloseCalls == 1

\* Close calls per behaviour of SpecAsync.
MaxAsyncCloses == 1

\* Context operations per behaviour of SpecAsyncContext.
MaxAsyncOps == 1

\* Sinks in the logger's list in SpecAsyncContext.
NumContextSinks == 1
----------------------------------------------------------------------------
(* levels.py *)

\* list(LogLevel): the canonical members in declaration order; a member is
\* represented by its value string (LogLevel is a StrEnum).
Members == <<"trace", "debug", "info", "warning", "error", "critical">>

MemberSet == {Members[i] : i \in 1..Len(Members)}

\* The class attributes of LogLevel: WARN and FATAL are bound to the members
\* WARNING and CRITICAL.
MemberByName(name) ==
    CASE name = "TRACE" -> "trace"
      [] name = "DEBUG" -> "debug"
      [] name = "INFO" -> "info"
      [] name = "WARNING" -> "warning"
      [] name = "ERROR" -> "error"
      [] name = "CRITICAL" -> "critical"
      [] name = "WARN" -> "warning"
      [] name = "FATAL" -> "critical"

\* A _missing_ that knows no legacy value.
MissingNothing(value) == "None"

\* LogLevel._missing_: the legacy values; None for anything else.
Missing(value) ==
    CASE value = "warn" -> "warning"
      [] value = "fatal" -> "critical"
      [] OTHER -> "None"

\* LogLevel(value): lookup by value, then _missing_; "ValueError" stands for
\* the exception the enum raises when _missing_ returns None.
LogLevelCall(value) ==
    IF value \in MemberSet THEN value
    ELSE IF Missing(value) # "None" THEN Missing(value)
    ELSE "ValueError"

\* The names bound in the class body: the six members and the two aliases
\* (LogLevel._member_map_).
MemberNames == {"TRACE", "DEBUG", "INFO", "WARNING", "ERROR", "CRITICAL", "WARN", "FATAL"}

\* members.index(m), with members = list(LogLevel): positions count from 0.
MemberIndex(m) == CHOOSE i \in 0..(Len(Members) - 1) : Members[i + 1] = m

\* A comparison by the alphabetical order of the values, the order of str.
LevelLtAlphabetical(a, b) ==
    LET sorted == <<"critical", "debug", "error", "info", "trace", "warning">>
        at(m) == CHOOSE i \in 1..6 : sorted[i] = m
    IN at(a) < at(b)

\* LogLevel.__lt__, __le__, __gt__, __ge__ on two members, and == (the
\* equality of str, which LogLevel inherits).
LevelLt(a, b) == MemberIndex(a) < MemberIndex(b)

LevelLe(a, b) == MemberIndex(a) <= MemberIndex(b)

LevelGt(a, b) == MemberIndex(a) > MemberIndex(b)

LevelGe(a, b) == MemberIndex(a) >= MemberIndex(b)

LevelEq(a, b) == a = b

\* _LogLevelMeta._resolve_member: a member is returned as it is (a member
\* and its value string are the same here), a value or a legacy value goes
\* through LogLevel(key), anything else is looked up by name; "KeyError"
\* stands for the exception of the failed lookup.
ResolveMember(key) ==
    IF LogLevelCall(key) # "ValueError" THEN LogLevelCall(key)
    ELSE IF key \in MemberNames THEN MemberByName(key)
    ELSE "KeyError"

\* seq[lo:hi] of Python for indices that are not negative: the elements at
\* the positions lo .. hi - 1 (counted from 0) that exist.
PySlice(seq, lo, hi) ==
    LET last == IF hi < Len(seq) THEN hi ELSE Len(seq)
        n == IF last > lo THEN last - lo ELSE 0
    IN [i \in 1..n |-> seq[lo + i]]

\* The slice with its upper end left out.
GetItemSliceExclusive(start, stop) ==
    LET first == IF start # "None" THEN ResolveMember(start) ELSE Members[1]
        last == IF stop # "None" THEN ResolveMember(stop) ELSE Members[Len(Members)]
    IN IF "KeyError" \in {first, last} THEN [raised |-> "KeyError", members |-> <<>>]
       ELSE [raised |-> "none",
             members |-> PySlice(Members, MemberIndex(first), MemberIndex(last))]

\* _LogLevelMeta.__getitem__ on slice(start, stop): "None" is an endpoint
\* left out; the list returned, or the exception raised.
GetItemSlice(start, stop) ==
    LET first == IF start # "None" THEN ResolveMember(start) ELSE Members[1]
        last == IF stop # "None" THEN ResolveMember(stop) ELSE Members[Len(Members)]
    IN IF "KeyError" \in {first, last} THEN [raised |-> "KeyError", members |-> <<>>]
       ELSE [raised |-> "none",
             members |-> PySlice(Members, MemberIndex(first), MemberIndex(last) + 1)]

----------------------------------------------------------------------------
(* Dictionaries *)

EmptyDict == [k \in {} |-> "x"]

\* {**f, **g}: the keys of both, g winning on a shared key.
Merge(f, g) ==
    [k \in (DOMAIN f) \cup (DOMAIN g) |-> IF k \in DOMAIN g THEN g[k] ELSE f[k]]

\* The dictionary without the keys of ks.
Without(f, ks) == [k \in (DOMAIN f) \ ks |-> f[k]]

SeqToSet(s) == {s[i] : i \in 1..Len(s)}

----------------------------------------------------------------------------
(* sinks/base.py *)

\* BaseSink.__init__: included_levels defaults to list(LogLevel).
DefaultIncludedLevels == Members

\* BaseSink._should_log: log_level in self.included_levels.
ShouldLog(sink, log_level) == log_level \in SeqToSet(sink.included_levels)

\* BaseSink.emit, the payload handed to _emit: the sink's context overlaid
\* by the payload (the payload itself when the sink has no context).
EmitMerge(sink, payload) ==
    IF sink.default_context # EmptyDict
    THEN Merge(sink.default_context, payload)
    ELSE payload

\* What the _emit of a sink that changes its argument does to the mapping
\* it is handed: it stores a key of its own (payload["touched"] = "yes").
EmitMutation(payload) == Merge(payload, [touched |-> "yes"])

\* BaseSink.emit, the caller's payload once emit has returned: merged is a
\* new dictionary when the sink has a context and the caller's dictionary
\* itself when it has none, so what _emit did to its argument was done to
\* the caller's payload in the second case only.
PayloadAfterEmit(sink, payload) ==
    IF sink.emit = "mutates" /\ sink.default_context = EmptyDict
    THEN EmitMutation(payload)
    ELSE payload

----------------------------------------------------------------------------
(* _core.py: payload construction *)

\* _caller_info(frame): the location of the call site.  One call site per
\* call number; caller_line is the line of that call.
CallerInfo(c) ==
    [caller_file |-> "app.py", caller_line |-> 10 * c, caller_function |-> "handler"]

\* A payload whose level is the name of the member, not its value.
BuildPayloadLevelName(ctx, message, level, content, caller_info, clock) ==
    LET name == CASE level = "trace" -> "TRACE" [] level = "debug" -> "DEBUG"
                  [] level = "info" -> "INFO" [] level = "warning" -> "WARNING"
                  [] level = "error" -> "ERROR" [] level = "critical" -> "CRITICAL"
    IN Merge(Merge(Merge([timestamp_ms |-> clock, message |-> message, level |-> name],
                         ctx), caller_info), content)

\* _build_payload with the default context merged last, over the content.
BuildPayloadContextLast(ctx, message, level, content, caller_info, clock) ==
    Merge(Merge(Merge([timestamp_ms |-> clock, message |-> message, level |-> level],
                caller_info), content), ctx)

\* _build_payload: base fields, then the default context, then the caller
\* location, then the call content, later ones winning.
BuildPayload(ctx, message, level, content, caller_info, clock) ==
    Merge(Merge(Merge([timestamp_ms |-> clock, message |-> message, level |-> level],
                ctx), caller_info), content)

----------------------------------------------------------------------------
(* Log calls *)

CallIds == DOMAIN calls

\* The message of call number c ("m1", "m2", ...).
Message(c) ==
    CASE c = 1 -> "m1"
      [] c = 2 -> "m2"
      [] c = 3 -> "m3"
      [] OTHER -> "m4"

NoCall ==
    [state |-> "unissued", message |-> "", arg |-> "", level |-> "", content |-> EmptyDict,
     caller |-> EmptyDict, payload |-> EmptyDict, idx |-> 0, visits |-> <<>>,
     exc |-> "none", opsAtIssue |-> 0, opsAtBuild |-> 0]

\* A call whose core.log is running or whose caller has not resumed yet.
InFlight(c) == calls[c].state \in {"submitted", "dispatch", "finished"}

\* Calls are numbered in the order they are made.
NextCall(c) ==
    /\ calls[c].state = "unissued"
    /\ \A d \in CallIds : d < c => calls[d].state # "unissued"

\* A synchronous caller is inside at most one operation of the logger.
CallerFree ==
    /\ closer.state \in {"idle", "returned"}
    /\ mode = "sync" => \A c \in CallIds : ~InFlight(c)

\* Logger.log (logger.py) with _LoggerCore.log up to the call of _dispatch:
\* the frame is captured and the payload is built in the caller's thread.
LoggerLog(c, level, content) ==
    /\ mode = "sync"
    /\ CallerFree
    /\ NextCall(c)
    /\ calls' = [calls EXCEPT ![c] =
                    [state |-> "dispatch", message |-> Message(c), arg |-> level,
                     level |-> MemberByName(level), content |-> content,
                     caller |-> CallerInfo(c),
                     payload |-> BuildPayload(default_context, Message(c),
                                              MemberByName(level), content,
                                              CallerInfo(c), now),
                     idx |-> 1, visits |-> <<>>, exc |-> "none",
                     opsAtIssue |-> ctxOp.seq, opsAtBuild |-> ctxOp.seq]]
    /\ UNCHANGED <<probe, mode, sinks, default_context, received, stderr, now,
                   ctxOp, budget, closer, closeLog, client, clients>>

\* A payload shared between calls: the one built by the latest call.
PayloadOfLastCall(c) ==
    LET built == {d \in CallIds : calls[d].payload # EmptyDict}
        last == CHOOSE d \in built : \A e \in built : e <= d
    IN calls[last].payload

\* The payload _LoggerCore.log hands to _dispatch: a local variable of the
\* call, built by that call.
PayloadOf(c) == calls[c].payload

\* The loop over the sinks run from the last sink to the first.
CurrentSinkReversed(call) == Len(sinks) + 1 - call.idx

\* for sink in self.sinks: the sink visited at position idx of the loop.
CurrentSink(call) == call.idx

\* A _get_client that makes a new client at every emit.
GetClientAlwaysNew(i) == Len(clients) + 1

\* BetterstackSink._get_client, as seen by one _emit: the client held, or a
\* new one (numbered after the clients created so far).
GetClient(i) == IF client[i] = 0 THEN Len(clients) + 1 ELSE client[i]

\* The loop body without LogLevel(...): the filter sees the level as the
\* payload spells it, an alias included.
VisitKindUnresolved(sink, payload) ==
    LET log_level == payload["level"] IN
    IF log_level \notin MemberSet \cup {"warn", "fatal"} THEN "level_failed"
    ELSE IF ~ShouldLog(sink, log_level) THEN "skipped"
    ELSE IF sink.emit = "raises" THEN "emit_failed"
    ELSE "emitted"

\* What one pass of the loop body of _dispatch does with a sink:
\*   "level_failed"  LogLevel(payload["level"]) raised ValueError
\*   "skipped"       _should_log returned False
\*   "emit_failed"   emit was called and raised
\*   "emitted"       emit was called and returned
VisitKind(sink, payload) ==
    LET log_level == LogLevelCall(payload["level"]) IN
    IF log_level = "ValueError" THEN "level_failed"
    ELSE IF ~ShouldLog(sink, log_level) THEN "skipped"
    ELSE IF sink.emit = "raises" THEN "emit_failed"
    ELSE "emitted"

\* The loop of _dispatch without its try/except: a failure ends the call.
DispatchStepNoCatch(c) ==
    /\ calls[c].state = "dispatch"
    /\ calls[c].idx <= Len(sinks)
    /\ LET i == CurrentSink(calls[c])
           kind == VisitKind(sinks[i], PayloadOf(c))
           failed == kind \in {"level_failed", "emit_failed"}
           called == kind \in {"emit_failed", "emitted"}
       IN /\ received' = IF kind = "emitted"
                         THEN [received EXCEPT ![i] =
                                 Append(@, EmitMerge(sinks[i], PayloadOf(c)))]
                         ELSE received
          /\ stderr' = stderr
          /\ IF called /\ sinks[i].kind = "betterstack"
             THEN /\ client' = [client EXCEPT ![i] = GetClient(i)]
                  /\ clients' = IF client[i] = 0 THEN Append(clients, "open") ELSE clients
             ELSE UNCHANGED <<client, clients>>
          /\ calls' = [calls EXCEPT ![c] =
                         IF failed
                         THEN [@ EXCEPT !.state = IF mode = "sync" THEN "returned" ELSE "finished",
                                        !.visits = Append(@, [sink |-> i, kind |-> kind]),
                                        !.exc = kind]
                         ELSE [@ EXCEPT !.idx = @ + 1,
                                        !.visits = Append(@, [sink |-> i, kind |-> kind]),
                                        !.payload = IF kind = "emitted"
                                                    THEN PayloadAfterEmit(sinks[i], @)
                                                    ELSE @]]
    /\ UNCHANGED <<probe, mode, sinks, default_context, now, ctxOp, budget, closer, closeLog>>

\* One pass of the loop of _dispatch, run by the thread of call c: filter,
\* emit, and the except clause that reports a failure on stderr.
DispatchStep(c) ==
    /\ calls[c].state = "dispatch"
    /\ calls[c].idx <= Len(sinks)
    /\ LET i == CurrentSink(calls[c])
           kind == VisitKind(sinks[i], PayloadOf(c))
           failed == kind \in {"level_failed", "emit_failed"}
           called == kind \in {"emit_failed", "emitted"}
       IN /\ received' = IF kind = "emitted"
                         THEN [received EXCEPT ![i] =
                                 Append(@, EmitMerge(sinks[i], PayloadOf(c)))]
                         ELSE received
          /\ stderr' = IF failed
                       THEN Append(stderr, [call |-> c, sink |-> i, what |-> "failed"])
                       ELSE stderr
          /\ IF called /\ sinks[i].kind = "betterstack"
             THEN /\ client' = [client EXCEPT ![i] = GetClient(i)]
                  /\ clients' = IF client[i] = 0 THEN Append(clients, "open") ELSE clients
             ELSE UNCHANGED <<client, clients>>
          /\ calls' = [calls EXCEPT ![c] =
                         [@ EXCEPT !.idx = @ + 1,
                                   !.visits = Append(@, [sink |-> i, kind |-> kind]),
                                   !.payload = IF kind = "emitted"
                                               THEN PayloadAfterEmit(sinks[i], @)
                                               ELSE @]]
    /\ UNCHANGED <<probe, mode, sinks, default_context, now, ctxOp, budget, closer, closeLog>>

\* A log that returns with the last sink of the list still to be visited.
CoreLogReturnEarly(c) ==
    /\ calls[c].state = "dispatch"
    /\ calls[c].idx >= Len(sinks)
    /\ calls' = [calls EXCEPT ![c].state = IF mode = "sync" THEN "returned" ELSE "finished"]
    /\ UNCHANGED <<probe, mode, sinks, default_context, received, stderr, now,
                   ctxOp, budget, closer, closeLog, client, clients>>

\* The loop of _dispatch is exhausted: _LoggerCore.log returns.  For a
\* Logger that is the return to the caller; for an AsyncLogger the worker
\* thread is done and the awaiting coroutine can be resumed.
CoreLogReturn(c) ==
    /\ calls[c].state = "dispatch"
    /\ calls[c].idx > Len(sinks)
    /\ calls' = [calls EXCEPT ![c].state = IF mode = "sync" THEN "returned" ELSE "finished"]
    /\ UNCHANGED <<probe, mode, sinks, default_context, received, stderr, now,
                   ctxOp, budget, closer, closeLog, client, clients>>

----------------------------------------------------------------------------
(* async_logger.py *)

\* AsyncLogger.log up to the await: the frame is captured in the caller's
\* thread and _LoggerCore.log is handed, with its arguments, to a worker
\* thread (asyncio.to_thread).
AsyncLoggerLog(c, level, content) ==
    /\ mode = "async"
    /\ NextCall(c)
    /\ calls' = [calls EXCEPT ![c] =
                    [state |-> "submitted", message |-> Message(c), arg |-> level,
                     level |-> MemberByName(level), content |-> content,
                     caller |-> CallerInfo(c), payload |-> EmptyDict,
                     idx |-> 0, visits |-> <<>>, exc |-> "none",
                     opsAtIssue |-> ctxOp.seq, opsAtBuild |-> 0]]
    /\ UNCHANGED <<probe, mode, sinks, default_context, received, stderr, now,
                   ctxOp, budget, closer, closeLog, client, clients>>

\* The worker thread runs the first line of _LoggerCore.log: the payload is
\* built from the default context as it is at that moment.
ThreadBuild(c) ==
    /\ calls[c].state = "submitted"
    /\ calls' = [calls EXCEPT ![c] =
                    [@ EXCEPT !.state = "dispatch",
                              !.payload = BuildPayload(default_context, calls[c].message,
                                                       calls[c].level, calls[c].content,
                                                       calls[c].caller, now),
                              !.idx = 1,
                              !.opsAtBuild = ctxOp.seq]]
    /\ UNCHANGED <<probe, mode, sinks, default_context, received, stderr, now,
                   ctxOp, budget, closer, closeLog, client, clients>>

\* An await that does not wait for the worker thread.
AwaitReadyAnytime(c) == calls[c].state \in {"submitted", "dispatch", "finished"}

\* await asyncio.to_thread(...): the coroutine resumes once the worker
\* thread has returned from _LoggerCore.log.
AwaitReady(c) == calls[c].state = "finished"

AwaitResume(c) ==
    /\ mode = "async"
    /\ AwaitReady(c)
    /\ calls' = [calls EXCEPT ![c].state = "returned"]
    /\ UNCHANGED <<probe, mode, sinks, default_context, received, stderr, now,
                   ctxOp, budget, closer, closeLog, client, clients>>

----------------------------------------------------------------------------
(* Context operations: _core.py and sinks/base.py *)

\* The keys of a sequence that are not keys of the context, in order.
MissingKeys(ctx, keys) == SelectSeq(keys, LAMBDA k : k \notin DOMAIN ctx)

\* for key in keys: del ctx[key] -- a key that is no longer there raises
\* KeyError and leaves the deletions made so far in place.
RECURSIVE DelKeys(_, _)
DelKeys(ctx, keys) ==
    IF keys = <<>> THEN [after |-> ctx, raised |-> "none", named |-> <<>>]
    ELSE IF Head(keys) \notin DOMAIN ctx
         THEN [after |-> ctx, raised |-> "KeyError", named |-> <<Head(keys)>>]
         ELSE DelKeys(Without(ctx, {Head(keys)}), Tail(keys))

\* An update_context that has not taken effect when it returns.
CoreUpdateContextDeferred(ctx, kwargs) == ctx

\* _LoggerCore.update_context: dict.update.
CoreUpdateContext(ctx, kwargs) == Merge(ctx, kwargs)

\* remove_context without the validation pass.
CoreRemoveContextUnchecked(ctx, keys) == DelKeys(ctx, keys)

\* _LoggerCore.remove_context: all keys are validated before any is deleted.
CoreRemoveContext(ctx, keys) ==
    IF MissingKeys(ctx, keys) # <<>>
    THEN [after |-> ctx, raised |-> "ContextError", named |-> MissingKeys(ctx, keys)]
    ELSE DelKeys(ctx, keys)

\* A clear_context that leaves the context as it is.
CoreClearContextKept(ctx) == ctx

\* _LoggerCore.clear_context: dict.clear.
CoreClearContext(ctx) == EmptyDict

\* BaseSink.update_context.
SinkUpdateContext(ctx, kwargs) == Merge(ctx, kwargs)

\* BaseSink.remove_context.
SinkRemoveContext(ctx, keys) ==
    IF MissingKeys(ctx, keys) # <<>>
    THEN [after |-> ctx, raised |-> "ContextError", named |-> MissingKeys(ctx, keys)]
    ELSE DelKeys(ctx, keys)

\* BaseSink.clear_context.
SinkClearContext(ctx) == EmptyDict

\* The caller may start a context operation: a Logger's caller is not inside
\* another call; an AsyncLogger's context operations are plain methods that
\* the event loop runs while worker threads may be dispatching.
CtxOpAllowed ==
    /\ budget.ops > 0
    /\ mode = "sync" => CallerFree

\* The record of one context operation in the history.
OpRecord(target, op, kwargs, keys, before, result) ==
    [seq |-> ctxOp.seq + 1, target |-> target, op |-> op, kwargs |-> kwargs, keys |-> keys,
     before |-> before, after |-> result.after,
     raised |-> result.raised, named |-> result.named]

Returned(ctx) == [after |-> ctx, raised |-> "none", named |-> <<>>]

\* Logger.update_context / AsyncLogger.update_context: run at once in the
\* caller's thread.
UpdateContext(kwargs) ==
    /\ CtxOpAllowed
    /\ default_context' = CoreUpdateContext(default_context, kwargs)
    /\ ctxOp' = OpRecord(0, "update", kwargs, <<>>, default_context,
                       Returned(CoreUpdateContext(default_context, kwargs)))
    /\ budget' = [budget EXCEPT !.ops = @ - 1]
    /\ UNCHANGED <<probe, mode, sinks, calls, received, stderr, now,
                   closer, closeLog, client, clients>>

\* Logger.remove_context / AsyncLogger.remove_context.
RemoveContext(keys) ==
    /\ CtxOpAllowed
    /\ default_context' = CoreRemoveContext(default_context, keys).after
    /\ ctxOp' = OpRecord(0, "remove", EmptyDict, keys, default_context,
                       CoreRemoveContext(default_context, keys))
    /\ budget' = [budget EXCEPT !.ops = @ - 1]
    /\ UNCHANGED <<probe, mode, sinks, calls, received, stderr, now,
                   closer, closeLog, client, clients>>

\* Logger.clear_context / AsyncLogger.clear_context.
ClearContext ==
    /\ CtxOpAllowed
    /\ default_context' = CoreClearContext(default_context)
    /\ ctxOp' = OpRecord(0, "clear", EmptyDict, <<>>, default_context,
                       Returned(CoreClearContext(default_context)))
    /\ budget' = [budget EXCEPT !.ops = @ - 1]
    /\ UNCHANGED <<probe, mode, sinks, calls, received, stderr, now,
                   closer, closeLog, client, clients>>

\* sink.update_context on the sink at position i.
SinkUpdate(i, kwargs) ==
    /\ CtxOpAllowed
    /\ sinks' = [sinks EXCEPT ![i].default_context = SinkUpdateContext(@, kwargs)]
    /\ ctxOp' = OpRecord(i, "update", kwargs, <<>>, sinks[i].default_context,
                       Returned(SinkUpdateContext(sinks[i].default_context, kwargs)))
    /\ budget' = [budget EXCEPT !.ops = @ - 1]
    /\ UNCHANGED <<probe, mode, default_context, calls, received, stderr, now,
                   closer, closeLog, client, clients>>

\* sink.remove_context on the sink at position i.
SinkRemove(i, keys) ==
    /\ CtxOpAllowed
    /\ sinks' = [sinks EXCEPT ![i].default_context = SinkRemoveContext(@, keys).after]
    /\ ctxOp' = OpRecord(i, "remove", EmptyDict, keys, sinks[i].default_context,
                       SinkRemoveContext(sinks[i].default_context, keys))
    /\ budget' = [budget EXCEPT !.ops = @ - 1]
    /\ UNCHANGED <<probe, mode, default_context, calls, received, stderr, now,
                   closer, closeLog, client, clients>>

\* sink.clear_context on the sink at position i.
SinkClear(i) ==
    /\ CtxOpAllowed
    /\ sinks' = [sinks EXCEPT ![i].default_context = SinkClearContext(@)]
    /\ ctxOp' = OpRecord(i, "clear", EmptyDict, <<>>, sinks[i].default_context,
                       Returned(SinkClearContext(sinks[i].default_context)))
    /\ budget' = [budget EXCEPT !.ops = @ - 1]
    /\ UNCHANGED <<probe, mode, default_context, calls, received, stderr, now,
                   closer, closeLog, client, clients>>

----------------------------------------------------------------------------
(* Closing: _core.py and sinks/betterstack.py *)

\* close without the check for a held client.
BetterstackCloseNoGuard(cl, cls) ==
    IF cl # 0
    THEN [client |-> 0, clients |-> [cls EXCEPT ![cl] = "closed"], raised |-> "none"]
    ELSE [client |-> cl, clients |-> cls, raised |-> "AttributeError"]

\* BetterstackSink.close on a sink whose _client is cl: a held client is
\* closed and dropped, no client means nothing to do.
BetterstackClose(cl, cls) ==
    IF cl # 0
    THEN [client |-> 0, clients |-> [cls EXCEPT ![cl] = "closed"], raised |-> "none"]
    ELSE [client |-> cl, clients |-> cls, raised |-> "none"]

\* What close() of the sink at position i does: "none" when the sink has no
\* close attribute, else the exception it raises ("none" when it returns).
SinkCloseResult(i) ==
    IF sinks[i].kind = "betterstack"
    THEN BetterstackClose(client[i], clients)
    ELSE [client |-> client[i], clients |-> clients,
          raised |-> IF sinks[i].close = "raises" THEN "RuntimeError" ELSE "none"]

\* The state of the HTTP clients, as recorded after a close.
Visited == [c \in CallIds |-> Len(calls[c].visits)]

Snapshot == [client |-> client, clients |-> clients, visited |-> Visited]

ClosesDone == Len(closer.snaps)

\* Logger.close / AsyncLogger.close up to the loop of _LoggerCore.close.
\* (An AsyncLogger runs the loop in a worker thread; one close at a time.)
LoggerClose ==
    /\ closer.state \in {"idle", "returned"}
    /\ mode = "sync" => CallerFree
    /\ budget.closes > 0
    /\ budget' = [budget EXCEPT !.closes = @ - 1]
    /\ closer' = [closer EXCEPT !.state = "running", !.idx = 1, !.exc = "none"]
    /\ UNCHANGED <<probe, mode, sinks, default_context, calls, received, stderr, now,
                   ctxOp, closeLog, client, clients>>

\* The loop of close without its try/except: a failure ends the close.
CloseStepNoCatch ==
    /\ closer.state = "running"
    /\ closer.idx <= Len(sinks)
    /\ LET i == closer.idx
           res == SinkCloseResult(i)
           kind == IF sinks[i].close = "none" THEN "no_close"
                   ELSE IF res.raised # "none" THEN "close_failed"
                   ELSE "closed"
       IN /\ closeLog' = Append(closeLog, [n |-> ClosesDone + 1, via |-> "logger", sink |-> i,
                                           kind |-> kind,
                                           raised |-> IF kind = "no_close" THEN "none"
                                                      ELSE res.raised])
          /\ IF kind = "no_close"
             THEN UNCHANGED <<client, clients>>
             ELSE /\ client' = [client EXCEPT ![i] = res.client]
                  /\ clients' = res.clients
          /\ stderr' = stderr
          /\ closer' = IF kind = "close_failed"
                       THEN [closer EXCEPT !.state = "returned", !.exc = res.raised,
                                           !.snaps = Append(@, Snapshot)]
                       ELSE [closer EXCEPT !.idx = @ + 1]
    /\ UNCHANGED <<probe, mode, sinks, default_context, calls, received, now, ctxOp, budget>>

\* One pass of the loop of _LoggerCore.close: a sink without close is
\* skipped, a close that raises is reported on stderr.
CloseStep ==
    /\ closer.state = "running"
    /\ closer.idx <= Len(sinks)
    /\ LET i == closer.idx
           res == SinkCloseResult(i)
           kind == IF sinks[i].close = "none" THEN "no_close"
                   ELSE IF res.raised # "none" THEN "close_failed"
                   ELSE "closed"
       IN /\ closeLog' = Append(closeLog, [n |-> ClosesDone + 1, via |-> "logger", sink |-> i,
                                           kind |-> kind,
                                           raised |-> IF kind = "no_close" THEN "none"
                                                      ELSE res.raised])
          /\ IF kind = "no_close"
             THEN UNCHANGED <<client, clients>>
             ELSE /\ client' = [client EXCEPT ![i] = res.client]
                  /\ clients' = res.clients
          /\ stderr' = IF kind = "close_failed"
                       THEN Append(stderr, [call |-> 0, sink |-> i, what |-> "close failed"])
                       ELSE stderr
          /\ closer' = [closer EXCEPT !.idx = @ + 1]
    /\ UNCHANGED <<probe, mode, sinks, default_context, calls, received, now, ctxOp, budget>>

\* The loop of _LoggerCore.close is exhausted: close returns (for an
\* AsyncLogger: the worker thread is done).
CloseReturn ==
    /\ closer.state = "running"
    /\ closer.idx > Len(sinks)
    /\ closer' = IF mode = "sync"
                 THEN [closer EXCEPT !.state = "returned", !.snaps = Append(@, Snapshot)]
                 ELSE [closer EXCEPT !.state = "finished"]
    /\ UNCHANGED <<probe, mode, sinks, default_context, calls, received, stderr, now,
                   ctxOp, budget, closeLog, client, clients>>

\* await asyncio.to_thread(self._core.close): the coroutine resumes once
\* the worker thread has returned from _LoggerCore.close.
AwaitCloseReady == closer.state = "finished"

AwaitClose ==
    /\ mode = "async"
    /\ AwaitCloseReady
    /\ closer' = [closer EXCEPT !.state = "returned", !.snaps = Append(@, Snapshot)]
    /\ UNCHANGED <<probe, mode, sinks, default_context, calls, received, stderr, now,
                   ctxOp, budget, closeLog, client, clients>>

\* close() called on the Betterstack sink at position i itself, not through
\* the logger.
SinkCloseDirect(i) ==
    /\ sinks[i].kind = "betterstack"
    /\ CallerFree
    /\ mode = "sync"
    /\ budget.closes > 0
    /\ budget' = [budget EXCEPT !.closes = @ - 1]
    /\ LET res == BetterstackClose(client[i], clients)
       IN /\ client' = [client EXCEPT ![i] = res.client]
          /\ clients' = res.clients
          /\ closeLog' = Append(closeLog, [n |-> ClosesDone + 1, via |-> "sink", sink |-> i,
                                           kind |-> IF res.raised = "none" THEN "closed"
                                                    ELSE "close_failed",
                                           raised |-> res.raised])
          /\ closer' = [closer EXCEPT !.state = "returned", !.exc = res.raised,
                           !.snaps = Append(@, [client |-> [client EXCEPT ![i] = res.client],
                                                clients |-> res.clients,
                                                visited |-> Visited])]
    /\ UNCHANGED <<probe, mode, sinks, default_context, calls, received, stderr, now, ctxOp>>

----------------------------------------------------------------------------
(* Construction *)

\* A sink of a test suite: a BaseSink subclass whose _emit records the
\* payload (emit = "ok"), always raises (emit = "raises") or records the
\* payload and then stores a key into it (emit = "mutates"), with no close
\* method (close = "none"), one that returns ("ok") or one that raises.
TestSink(levels, ctx, emit, close) ==
    [kind |-> "test", included_levels |-> levels, default_context |-> ctx,
     emit |-> emit, close |-> close]

\* BetterstackSink.__init__; emit says whether the POST succeeds ("ok") or
\* fails, by a connection error or a non-2xx status ("raises").
BetterstackSink(levels, ctx, emit) ==
    [kind |-> "betterstack", included_levels |-> levels, default_context |-> ctx,
     emit |-> emit, close |-> "ok"]

\* LogLevel[LogLevel.INFO:], the filter of the end-to-end scenario.
InfoAndUp == <<"info", "warning", "error", "critical">>

\* No function has been called on its own yet.
NoProbe == [op |-> "none", args |-> <<>>, out |-> "none"]

NoOp ==
    [seq |-> 0, target |-> 0, op |-> "none", kwargs |-> EmptyDict, keys |-> <<>>,
     before |-> EmptyDict, after |-> EmptyDict, raised |-> "none", named |-> <<>>]

\* Logger.__init__ / AsyncLogger.__init__ with _LoggerCore.__init__: the
\* sinks and the default context are the ones given, nothing has been
\* logged, no sink holds a client.
InitWith(m, nSinks, sinkSet, ctxSet, nCalls, nOps, nCloses) ==
    /\ mode = m
    /\ sinks \in [1..nSinks -> sinkSet]
    /\ default_context \in ctxSet
    /\ calls = [c \in 1..nCalls |-> NoCall]
    /\ received = [i \in 1..nSinks |-> <<>>]
    /\ stderr = <<>>
    /\ now = 1
    /\ ctxOp = NoOp
    /\ budget = [ops |-> nOps, closes |-> nCloses]
    /\ closer = [state |-> "idle", idx |-> 0, exc |-> "none", snaps |-> <<>>]
    /\ closeLog = <<>>
    /\ client = [i \in 1..nSinks |-> 0]
    /\ clients = <<>>
    /\ probe = NoProbe

----------------------------------------------------------------------------
(* Spec: a Logger dispatching to sinks that filter and fail *)

DispatchSinks ==
    {TestSink(levels, EmptyDict, emit, "none") :
        levels \in {DefaultIncludedLevels, InfoAndUp}, emit \in {"ok", "raises"}}

DispatchLevels == {"TRACE", "INFO", "WARNING", "WARN", "FATAL"}

DispatchContents == {EmptyDict, [level |-> "warn"], [level |-> "bogus"]}

Init == InitWith("sync", NumSinks, DispatchSinks, {EmptyDict}, MaxCalls, 0, 0)

Next ==
    \/ \E c \in CallIds, level \in DispatchLevels, content \in DispatchContents :
          LoggerLog(c, level, content)
    \/ \E c \in CallIds : DispatchStep(c)
    \/ \E c \in CallIds : CoreLogReturn(c)

Spec == Init /\ [][Next]_vars

----------------------------------------------------------------------------
(* Claims checked under Spec *)

HasReturned(c) == calls[c].state = "returned"

\* The number of payloads of call c that the _emit of sink i was handed
\* (every call has a message of its own).
Deliveries(i, c) ==
    Cardinality({j \in 1..Len(received[i]) : received[i][j]["message"] = calls[c].message})

\* The canonical level a level string stands for: the aliases warn and fatal
\* stand for warning and critical.
Canonical(value) ==
    CASE value = "warn" -> "warning"
      [] value = "fatal" -> "critical"
      [] OTHER -> value

\* The filter of sink i accepts the level of the payload.
Accepts(i, payload) ==
    Canonical(payload["level"]) \in SeqToSet(sinks[i].included_levels)

\* C1 (destination isolation): a log call that has returned raised nothing
\* to its caller, and every sink whose emit does not raise and whose filter
\* accepts the payload's level was handed the payload exactly once, wherever
\* the failing sinks stand in the list.
C1_DestinationIsolation ==
    \A c \in CallIds :
        HasReturned(c) =>
            /\ calls[c].exc = "none"
            /\ \A i \in 1..Len(sinks) :
                  (sinks[i].emit = "ok" /\ Accepts(i, calls[c].payload))
                      => Deliveries(i, c) = 1

\* C1 witness: the first sink raised, the second one still got the payload.
C1_Witness ==
    \E c \in CallIds :
        /\ HasReturned(c)
        /\ calls[c].visits[1].kind = "emit_failed"
        /\ sinks[2].emit = "ok"
        /\ Deliveries(2, c) = 1

\* C2 (level filtering): in every visit of a dispatch, emit is invoked if and
\* only if the canonical level of the payload is in the sink's
\* included_levels, so an alias is accepted exactly when its canonical level
\* is; and a sink limited to info..critical that has seen log("m1", TRACE)
\* and then log("m2", INFO) holds exactly one payload, with message "m2".
C2_LevelFiltering ==
    /\ \A c \in CallIds : \A k \in 1..Len(calls[c].visits) :
          LET v == calls[c].visits[k] IN
          (v.kind \in {"emitted", "emit_failed"}) <=> Accepts(v.sink, calls[c].payload)
    /\ \A i \in 1..Len(sinks) :
          ( /\ sinks[i] = TestSink(InfoAndUp, EmptyDict, "ok", "none")
            /\ HasReturned(1) /\ calls[1].arg = "TRACE" /\ calls[1].content = EmptyDict
            /\ HasReturned(2) /\ calls[2].arg = "INFO" /\ calls[2].content = EmptyDict
            /\ \A c \in CallIds : c > 2 => calls[c].state = "unissued" )
          => /\ Len(received[i]) = 1
             /\ received[i][1]["message"] = "m2"

\* C2 witness: the scenario has run, and a call made with the alias WARN
\* reached the limited sink.
C2_Witness ==
    \E i \in 1..Len(sinks) :
          /\ sinks[i] = TestSink(InfoAndUp, EmptyDict, "ok", "none")
          /\ HasReturned(1) /\ calls[1].arg = "TRACE" /\ calls[1].content = EmptyDict
          /\ HasReturned(2) /\ calls[2].arg = "INFO" /\ calls[2].content = EmptyDict
          /\ Len(received[i]) = 1
          /\ received[i][1]["message"] = "m2"

\* C6 (sequential in-order dispatch): the visits of one call are the sinks
\* 1, 2, ... in list order without a gap, one visit is over before the next
\* begins, and a call that has returned has visited every sink.
C6_InOrderDispatch ==
    \A c \in CallIds :
        /\ \A k \in 1..Len(calls[c].visits) : calls[c].visits[k].sink = k
        /\ calls[c].state = "dispatch" => Len(calls[c].visits) = calls[c].idx - 1
        /\ HasReturned(c) => Len(calls[c].visits) = Len(sinks)

\* C6 witness: a call has returned after handing its payload to sink 1 and
\* then to sink 2.
C6_Witness ==
    \E c \in CallIds :
        /\ HasReturned(c)
        /\ calls[c].visits[1] = [sink |-> 1, kind |-> "emitted"]
        /\ calls[c].visits[2].kind = "emitted"

----------------------------------------------------------------------------
(* SpecPrecedence: the three contexts and the call content meet *)

PrecedenceSinks ==
    {TestSink(DefaultIncludedLevels, ctx, "ok", "none") :
        ctx \in {EmptyDict, [a |-> "1"], [a |-> "1", message |-> "from sink"]}}

PrecedenceContexts ==
    {EmptyDict, [a |-> "2", b |-> "2"], [b |-> "2", caller_file |-> "ctx.py"]}

PrecedenceContents ==
    {EmptyDict, [a |-> "3"], [a |-> "3", caller_file |-> "custom.py"]}

InitPrecedence == InitWith("sync", NumSinks, PrecedenceSinks, PrecedenceContexts, MaxCalls, 0, 0)

NextPrecedence ==
    \/ \E c \in CallIds, content \in PrecedenceContents : LoggerLog(c, "INFO", content)
    \/ \E c \in CallIds : DispatchStep(c)
    \/ \E c \in CallIds : CoreLogReturn(c)

SpecPrecedence == InitPrecedence /\ [][NextPrecedence]_vars

\* The payloads of call c among those handed to sink i.
DeliveredTo(i, c) ==
    {received[i][j] : j \in {j \in 1..Len(received[i]) :
        received[i][j]["message"] = calls[c].message}}

BaseKeys == {"timestamp_ms", "message", "level"}

\* C3 as stated: for every key the delivered value comes from the call
\* content, else from the logger's default context, else from the sink's own
\* context.  (No context operation runs under SpecPrecedence, so the
\* contexts are the ones the call saw.)
C3_AsStated ==
    \A c \in CallIds : \A i \in 1..Len(sinks) : \A p \in DeliveredTo(i, c) :
        \A k \in DOMAIN p :
            IF k \in DOMAIN calls[c].content THEN p[k] = calls[c].content[k]
            ELSE IF k \in DOMAIN default_context THEN p[k] = default_context[k]
            ELSE IF k \in DOMAIN sinks[i].default_context
                 THEN p[k] = sinks[i].default_context[k]
            ELSE TRUE

\* C3 (amended): the delivered payload has exactly the keys of the five
\* layers, and for every key the value comes from the call content, else from
\* the captured caller location, else from the logger's default context, else
\* from the base fields (timestamp_ms, message, level), else from the sink's
\* own context.
C3_ContextPrecedence ==
    \A c \in CallIds : \A i \in 1..Len(sinks) : \A p \in DeliveredTo(i, c) :
        /\ DOMAIN p = BaseKeys \cup DOMAIN calls[c].content \cup DOMAIN calls[c].caller
                        \cup DOMAIN default_context \cup DOMAIN sinks[i].default_context
        /\ \A k \in DOMAIN p :
            IF k \in DOMAIN calls[c].content THEN p[k] = calls[c].content[k]
            ELSE IF k \in DOMAIN calls[c].caller THEN p[k] = calls[c].caller[k]
            ELSE IF k \in DOMAIN default_context THEN p[k] = default_context[k]
            ELSE IF k = "message" THEN p[k] = calls[c].message
            ELSE IF k = "level" THEN p[k] = calls[c].level
            ELSE IF k = "timestamp_ms" THEN p[k] = calls[c].payload[k]
            ELSE p[k] = sinks[i].default_context[k]

\* C3 witness: sink context {a: 1}, logger context {a: 2, b: 2} and content
\* {a: 3} have delivered a = 3 and b = 2.
C3_Witness ==
    \E c \in CallIds : \E i \in 1..Len(sinks) : \E p \in DeliveredTo(i, c) :
        /\ sinks[i].default_context = [a |-> "1"]
        /\ default_context = [a |-> "2", b |-> "2"]
        /\ calls[c].content = [a |-> "3"]
        /\ p["a"] = "3" /\ p["b"] = "2"

----------------------------------------------------------------------------
(* SpecContext: update_context, remove_context and clear_context on a    *)
(* Logger and on its sinks                                                *)

ContextSinks ==
    {TestSink(DefaultIncludedLevels, ctx, "ok", "none") :
        ctx \in {EmptyDict, [x |-> "1", y |-> "1"]}}

ContextContexts == {EmptyDict, [x |-> "1", y |-> "1"]}

ContextKwargs == {[x |-> "2"], [z |-> "2"]}

ContextKeys ==
    {<<"x">>, <<"x", "y">>, <<"x", "missing">>, <<"missing", "x", "gone">>, <<"x", "x">>}

InitContext == InitWith("sync", NumSinks, ContextSinks, ContextContexts, 0, MaxCtxOps, 0)

NextContext ==
    \/ \E kwargs \in ContextKwargs : UpdateContext(kwargs)
    \/ \E keys \in ContextKeys : RemoveContext(keys)
    \/ ClearContext
    \/ \E i \in 1..Len(sinks), kwargs \in ContextKwargs : SinkUpdate(i, kwargs)
    \/ \E i \in 1..Len(sinks), keys \in ContextKeys : SinkRemove(i, keys)
    \/ \E i \in 1..Len(sinks) : SinkClear(i)

SpecContext == InitContext /\ [][NextContext]_vars

\* The context a context operation works on: the logger's (target 0) or the
\* one of the sink at position target.
ContextOf(target) ==
    IF target = 0 THEN default_context ELSE sinks[target].default_context

\* C4 (remove_context is atomic-or-nothing): when the last context
\* operation was a remove_context, on the logger or on a sink, with a key
\* that was absent, it raised ContextError naming every missing key, and the
\* context is what it was before the call.
C4_RemoveAtomic ==
    (ctxOp.op = "remove" /\ \E k \in SeqToSet(ctxOp.keys) : k \notin DOMAIN ctxOp.before)
        => /\ ctxOp.raised = "ContextError"
           /\ SeqToSet(ctxOp.named) = SeqToSet(ctxOp.keys) \ DOMAIN ctxOp.before
           /\ ctxOp.after = ctxOp.before
           /\ ContextOf(ctxOp.target) = ctxOp.before

\* C4 witness: remove_context("x", "missing") on a context holding x and y
\* has raised, and x and y are still there.
C4_Witness ==
    /\ ctxOp.op = "remove"
    /\ ctxOp.keys = <<"x", "missing">>
    /\ ctxOp.raised = "ContextError"
    /\ DOMAIN ctxOp.before = {"x", "y"}
    /\ DOMAIN ContextOf(ctxOp.target) = {"x", "y"}

----------------------------------------------------------------------------
(* SpecClose: a Logger whose sinks are closed, some of them Betterstack   *)
(* sinks that hold an HTTP client after their first emit                  *)

CloseSinks ==
    {TestSink(DefaultIncludedLevels, EmptyDict, "ok", close) : close \in {"none", "raises"}}
    \cup {BetterstackSink(levels, EmptyDict, "ok") :
            levels \in {DefaultIncludedLevels, InfoAndUp}}

InitClose == InitWith("sync", NumSinks, CloseSinks, {EmptyDict}, MaxCloseCalls, 0, MaxCloses)

NextClose ==
    \/ \E c \in CallIds, level \in {"TRACE", "INFO"} : LoggerLog(c, level, EmptyDict)
    \/ \E c \in CallIds : DispatchStep(c)
    \/ \E c \in CallIds : CoreLogReturn(c)
    \/ LoggerClose
    \/ CloseStep
    \/ CloseReturn
    \/ \E i \in 1..Len(sinks) : SinkCloseDirect(i)

SpecClose == InitClose /\ [][NextClose]_vars

\* The entries that close number n left in the history.
CloseEntries(n) == SelectSeq(closeLog, LAMBDA e : e.n = n)

\* C5 (close isolation): a Logger.close that has returned raised nothing to
\* its caller and went through every sink in list order: a sink without a
\* close operation was skipped, every other sink had its close called, also
\* after the close of an earlier sink has raised.
C5_CloseIsolation ==
    /\ closer.state = "returned" => closer.exc = "none"
    /\ \A n \in 1..ClosesDone :
          LET es == CloseEntries(n) IN
          es[1].via = "logger" =>
              /\ Len(es) = Len(sinks)
              /\ \A k \in 1..Len(es) :
                    /\ es[k].sink = k
                    /\ es[k].kind = "no_close" <=> sinks[k].close = "none"
                    /\ es[k].kind = "close_failed" <=> sinks[k].close = "raises"

\* C5 witness: a close has returned in which the close of sink 1 raised and
\* sink 2 was closed all the same.
C5_Witness ==
    \E n \in 1..ClosesDone :
        /\ Len(CloseEntries(n)) = Len(sinks)
        /\ CloseEntries(n)[1].kind = "close_failed"
        /\ CloseEntries(n)[2].kind = "closed"

\* C10 (close is idempotent and safe on an unused sink): no close of a
\* Betterstack sink raises, whether or not the sink has emitted; after a close
\* the sinks it covered hold no client; and a close that follows another close
\* of the same kind, with no dispatch in between, leaves the clients exactly
\* as the first one left them.
C10_CloseIdempotent ==
    /\ \A k \in 1..Len(closeLog) :
          sinks[closeLog[k].sink].kind = "betterstack" => closeLog[k].raised = "none"
    /\ \A n \in 1..ClosesDone :
          LET es == CloseEntries(n) IN
          \A k \in 1..Len(es) :
              sinks[es[k].sink].kind = "betterstack" => closer.snaps[n].client[es[k].sink] = 0
    /\ \A n \in 1..(ClosesDone - 1) :
          ( /\ closer.snaps[n].visited = closer.snaps[n + 1].visited
            /\ [k \in 1..Len(CloseEntries(n)) |-> <<CloseEntries(n)[k].via, CloseEntries(n)[k].sink>>]
                 = [k \in 1..Len(CloseEntries(n + 1)) |->
                       <<CloseEntries(n + 1)[k].via, CloseEntries(n + 1)[k].sink>>] )
          => closer.snaps[n + 1] = closer.snaps[n]

\* C10 witness: the logger has been closed twice in a row after a dispatch
\* that gave one Betterstack sink a client and was filtered out by another,
\* which never emitted.
C10_Witness ==
    /\ ClosesDone >= 2
    /\ closer.snaps[1].visited = closer.snaps[2].visited
    /\ closer.snaps[1].clients = <<"closed">>
    /\ \E i, j \in 1..Len(sinks) :
          /\ sinks[i].kind = "betterstack" /\ sinks[j].kind = "betterstack"
          /\ \E c \in CallIds : /\ HasReturned(c)
                                /\ calls[c].visits[i].kind \in {"emitted", "emit_failed"}
          /\ \A c \in CallIds : HasReturned(c) => calls[c].visits[j].kind = "skipped"
          /\ \A n \in 1..2 : /\ Len(CloseEntries(n)) = Len(sinks)
                              /\ CloseEntries(n)[i].kind = "closed"
                              /\ CloseEntries(n)[j].kind = "closed"

----------------------------------------------------------------------------
(* SpecAsync: an AsyncLogger with several log calls in flight, and close *)

AsyncSinks ==
    {TestSink(DefaultIncludedLevels, EmptyDict, emit, "none") : emit \in {"ok", "raises"}}

\* The arguments of call c: call sites that follow one another differ in
\* level and content, and every call has its own message.
AsyncArgs(c) == IF c % 2 = 1 THEN <<"INFO", EmptyDict>> ELSE <<"ERROR", [req |-> "r1"]>>

\* The caller awaits close with no log call of its own pending.
Quiet == \A c \in CallIds : ~InFlight(c)

InitAsync == InitWith("async", NumSinks, AsyncSinks, {EmptyDict}, MaxCalls, 0, MaxAsyncCloses)

NextAsync ==
    \/ \E c \in CallIds : /\ closer.state \in {"idle", "returned"}
                           /\ AsyncLoggerLog(c, AsyncArgs(c)[1], AsyncArgs(c)[2])
    \/ \E c \in CallIds : ThreadBuild(c)
    \/ \E c \in CallIds : DispatchStep(c)
    \/ \E c \in CallIds : CoreLogReturn(c)
    \/ \E c \in CallIds : AwaitResume(c)
    \/ Quiet /\ LoggerClose
    \/ CloseStep
    \/ CloseReturn
    \/ AwaitClose

SpecAsync == InitAsync /\ [][NextAsync]_vars

\* C7 (the awaitable completes after the dispatch): a log call whose
\* coroutine has resumed has visited every sink, each visit a skip, an emit
\* or a failure that is on stderr; a close whose coroutine has resumed has
\* gone through every sink.
C7_AwaitAfterDispatch ==
    /\ \A c \in CallIds :
          HasReturned(c) =>
              /\ Len(calls[c].visits) = Len(sinks)
              /\ \A k \in 1..Len(sinks) :
                    LET v == calls[c].visits[k] IN
                    \/ v.kind \in {"skipped", "emitted"}
                    \/ /\ v.kind \in {"emit_failed", "level_failed"}
                       /\ \E n \in 1..Len(stderr) :
                             stderr[n].call = c /\ stderr[n].sink = v.sink
    /\ \A n \in 1..ClosesDone : Len(CloseEntries(n)) = Len(sinks)

\* C7 witness: the coroutine of a call has resumed after an emit and a
\* reported failure.
C7_Witness ==
    \E c \in CallIds :
        /\ mode = "async"
        /\ HasReturned(c)
        /\ calls[c].visits[1].kind = "emit_failed"
        /\ calls[c].visits[2].kind = "emitted"

----------------------------------------------------------------------------
(* SpecAsyncContext: context operations on an AsyncLogger while log calls *)
(* are in flight                                                          *)

InitAsyncContext ==
    InitWith("async", NumContextSinks, {TestSink(DefaultIncludedLevels, EmptyDict, "ok", "none")},
             {EmptyDict, [a |-> "0"]}, MaxCalls, MaxAsyncOps, 0)

\* The content of call c: every second call passes the key a itself.
ContextContent(c) == IF c % 2 = 1 THEN EmptyDict ELSE [a |-> "9"]

NextAsyncContext ==
    \/ \E c \in CallIds : AsyncLoggerLog(c, "INFO", ContextContent(c))
    \/ \E c \in CallIds : ThreadBuild(c)
    \/ \E c \in CallIds : DispatchStep(c)
    \/ \E c \in CallIds : CoreLogReturn(c)
    \/ \E c \in CallIds : AwaitResume(c)
    \/ UpdateContext([a |-> "1"])
    \/ RemoveContext(<<"a">>)
    \/ ClearContext

SpecAsyncContext == InitAsyncContext /\ [][NextAsyncContext]_vars

\* The payload of call c has been built.
Built(c) == calls[c].state \in {"dispatch", "finished", "returned"}

\* C8 (context operations are synchronous): the last context operation on
\* the logger has taken effect on the default context by the time it has
\* returned, and a log call issued after it (with no context operation
\* since) has built its payload from that context: a key the operation added
\* is there, a key it removed is not, unless the call's own content or
\* caller location supplies it.
C8_ContextOpsSynchronous ==
    /\ (ctxOp.op = "update" /\ ctxOp.target = 0) =>
          \A k \in DOMAIN ctxOp.kwargs :
              k \in DOMAIN default_context /\ default_context[k] = ctxOp.kwargs[k]
    /\ (ctxOp.op = "remove" /\ ctxOp.target = 0 /\ ctxOp.raised = "none") =>
          \A k \in SeqToSet(ctxOp.keys) : k \notin DOMAIN default_context
    /\ (ctxOp.op = "clear" /\ ctxOp.target = 0) => default_context = EmptyDict
    /\ \A c \in CallIds :
          ( /\ Built(c)
            /\ ctxOp.target = 0
            /\ calls[c].opsAtIssue = ctxOp.seq
            /\ calls[c].opsAtBuild = ctxOp.seq )
          => LET p == calls[c].payload
                 own == DOMAIN calls[c].content \cup DOMAIN calls[c].caller
             IN /\ ctxOp.op = "update" =>
                      \A k \in DOMAIN ctxOp.kwargs :
                          k \in DOMAIN p /\ (k \notin own => p[k] = ctxOp.kwargs[k])
                /\ (ctxOp.op = "remove" /\ ctxOp.raised = "none") =>
                      \A k \in SeqToSet(ctxOp.keys) :
                          k \notin own \cup BaseKeys => k \notin DOMAIN p
                /\ ctxOp.op = "clear" => DOMAIN p \subseteq own \cup BaseKeys

\* C8 witness: on an AsyncLogger, update_context(a = "1") returned, then a
\* log call was issued, and its payload carries a = "1".
C8_Witness ==
    \E c \in CallIds :
        /\ mode = "async"
        /\ Built(c)
        /\ ctxOp.op = "update"
        /\ calls[c].opsAtIssue = ctxOp.seq
        /\ calls[c].payload["a"] = "1"

\* C9 (concurrent calls keep to themselves): with calls in flight at the
\* same time, each call visits the sinks in list order, and for every sink
\* its emit returned on exactly one payload carries the call's message, and
\* that payload has the call's own level, content and caller location.
C9_ConcurrentCalls ==
    \A c \in CallIds :
        /\ \A k \in 1..Len(calls[c].visits) : calls[c].visits[k].sink = k
        /\ \A k \in 1..Len(calls[c].visits) :
              calls[c].visits[k].kind = "emitted" =>
                  /\ Deliveries(k, c) = 1
                  /\ \A p \in DeliveredTo(k, c) :
                        /\ p["level"] = calls[c].level
                        /\ p["caller_line"] = calls[c].caller["caller_line"]
                        /\ \A key \in DOMAIN calls[c].content : p[key] = calls[c].content[key]
                        /\ "req" \in DOMAIN p => "req" \in DOMAIN calls[c].content

\* C9 witness: two calls are dispatching at the same time; call 1 reached
\* sink 1 first, call 2 overtook it and reached sink 2 first.
C9_Witness ==
    /\ calls[1].state = "dispatch" /\ calls[2].state = "dispatch"
    /\ Len(received[1]) = 2 /\ received[1][1]["message"] = "m1"
    /\ Len(received[2]) = 1 /\ received[2][1]["message"] = "m2"
    /\ received[1][2]["level"] # received[1][1]["level"]

----------------------------------------------------------------------------
(* SpecLevels: the functions of LogLevel, and the way a level goes into a  *)
(* payload and through JSON, each called on its own                       *)

\* The variables of the logger, which a function called on its own leaves
\* alone.
loggerVars == <<mode, sinks, default_context, calls, received, stderr, now,
                ctxOp, budget, closer, closeLog, client, clients>>

\* The keys whose values are integers; every other value is a string.
NumberKeys == {"timestamp_ms", "caller_line"}

\* json.dumps of a dictionary of strings and integers: per key, the JSON
\* type and the text of the value (a LogLevel member is a str and is written
\* as its value).
JsonDumps(d) ==
    [k \in DOMAIN d |-> [type |-> IF k \in NumberKeys THEN "number" ELSE "string",
                         text |-> d[k]]]

\* json.loads: the dictionary of the values.
JsonLoads(text) == [k \in DOMAIN text |-> text[k].text]

\* Everything a caller may pass where a level is expected: values, legacy
\* values, names, nothing, and a token that is none of these.
LevelTokens == MemberSet \cup {"warn", "fatal"} \cup MemberNames \cup {"None", "bogus"}

\* a < b, a <= b, a > b, a >= b and a == b on two members.
Compare(a, b) ==
    /\ probe' = [op |-> "compare", args |-> <<a, b>>,
                 out |-> [lt |-> LevelLt(a, b), le |-> LevelLe(a, b),
                          gt |-> LevelGt(a, b), ge |-> LevelGe(a, b),
                          eq |-> LevelEq(a, b)]]
    /\ UNCHANGED loggerVars

\* LogLevel[start:stop].
Slice(start, stop) ==
    /\ probe' = [op |-> "slice", args |-> <<start, stop>>, out |-> GetItemSlice(start, stop)]
    /\ UNCHANGED loggerVars

\* LogLevel(token), and LogLevel(...) of what it returned.
Resolve(token) ==
    /\ probe' = [op |-> "resolve", args |-> <<token>>,
                 out |-> [first |-> LogLevelCall(token),
                          again |-> LogLevelCall(LogLevelCall(token))]]
    /\ UNCHANGED loggerVars

\* list(LogLevel).
Iterate ==
    /\ probe' = [op |-> "iterate", args |-> <<>>, out |-> Members]
    /\ UNCHANGED loggerVars

\* A payload is built with the level LogLevel.<name> or LogLevel(<value>),
\* written with json.dumps, read back with json.loads, and its level string
\* is resolved with LogLevel(...).
RoundTrip(token) ==
    LET level == IF token \in MemberNames THEN MemberByName(token) ELSE LogLevelCall(token)
        payload == BuildPayload(default_context, "m", level, EmptyDict, EmptyDict, now)
        text == JsonDumps(payload)
    IN /\ probe' = [op |-> "roundtrip", args |-> <<token>>,
                    out |-> [level |-> level, text |-> text,
                             resolved |-> LogLevelCall(JsonLoads(text)["level"])]]
       /\ UNCHANGED loggerVars

InitLevels ==
    InitWith("sync", NumSinks, {TestSink(DefaultIncludedLevels, EmptyDict, "ok", "none")},
             {EmptyDict}, 0, 0, 0)

NextLevels ==
    \/ \E a, b \in MemberSet : Compare(a, b)
    \/ \E start, stop \in LevelTokens : Slice(start, stop)
    \/ \E token \in LevelTokens \ {"None"} : Resolve(token)
    \/ Iterate
    \/ \E token \in MemberSet \cup {"warn", "fatal"} \cup MemberNames : RoundTrip(token)

SpecLevels == InitLevels /\ [][NextLevels]_vars

\* The severity order the levels are documented to have, lowest first.
SeverityOrder == <<"trace", "debug", "info", "warning", "error", "critical">>

\* The place of a canonical level in the severity order.
Severity(m) == CHOOSE i \in 1..Len(SeverityOrder) : SeverityOrder[i] = m

\* The canonical level a value, a legacy value or a name stands for.
LevelOf(token) ==
    CASE token \in {"warn", "WARN", "WARNING"} -> "warning"
      [] token \in {"fatal", "FATAL", "CRITICAL"} -> "critical"
      [] token = "TRACE" -> "trace"
      [] token = "DEBUG" -> "debug"
      [] token = "INFO" -> "info"
      [] token = "ERROR" -> "error"
      [] OTHER -> token

\* C11 (severity order is total): for two canonical levels exactly one of
\* a < b, a == b, a > b holds, a <= b is (a < b or a == b), a >= b is
\* (a > b or a == b), and a < b holds exactly when a comes before b in
\* [trace, debug, info, warning, error, critical].
C11_SeverityOrderTotal ==
    probe.op = "compare" =>
        LET a == probe.args[1]
            b == probe.args[2]
            r == probe.out
        IN /\ Cardinality({x \in {"lt", "eq", "gt"} : r[x]}) = 1
           /\ r.le <=> (r.lt \/ r.eq)
           /\ r.ge <=> (r.gt \/ r.eq)
           /\ r.lt <=> Severity(a) < Severity(b)
           /\ r.gt <=> Severity(a) > Severity(b)
           /\ r.eq <=> Severity(a) = Severity(b)

\* C11 witness: debug < trace was asked (alphabetical order would say yes)
\* and the answer was no.
C11_Witness ==
    /\ probe.op = "compare"
    /\ probe.args = <<"debug", "trace">>
    /\ ~probe.out.lt /\ probe.out.gt

\* C12 (level range): for endpoints that are members, values, names, aliases
\* or left out, LogLevel[from:to] raises nothing and is the list of the
\* canonical levels from rank(from) to rank(to), ascending and without
\* duplicates; it is empty when rank(from) > rank(to).
C12_LevelRange ==
    (probe.op = "slice" /\ "bogus" \notin {probe.args[1], probe.args[2]}) =>
        LET from == IF probe.args[1] = "None" THEN "trace" ELSE LevelOf(probe.args[1])
            to == IF probe.args[2] = "None" THEN "critical" ELSE LevelOf(probe.args[2])
            got == probe.out.members
        IN /\ probe.out.raised = "none"
           /\ {got[i] : i \in 1..Len(got)}
                = {m \in MemberSet : Severity(from) <= Severity(m) /\ Severity(m) <= Severity(to)}
           /\ \A i \in 1..(Len(got) - 1) : Severity(got[i]) < Severity(got[i + 1])
           /\ Severity(from) > Severity(to) => got = <<>>

\* C12 witness: the reversed range LogLevel["fatal":"TRACE"], given by a
\* legacy value and a name, returned the empty list.
C12_Witness ==
    /\ probe.op = "slice"
    /\ probe.args = <<"fatal", "TRACE">>
    /\ probe.out.raised = "none"
    /\ probe.out.members = <<>>

\* C13 (alias resolution): the six values and the legacy values warn and
\* fatal resolve to a canonical member, warn to warning and fatal to
\* critical; resolving the result again gives the same member; iteration
\* gives exactly the six canonical members; any other token is rejected.
C13_AliasResolution ==
    /\ probe.op = "resolve" =>
          LET token == probe.args[1] IN
          IF token \in {"trace", "debug", "info", "warning", "error", "critical", "warn", "fatal"}
          THEN /\ probe.out.first = LevelOf(token)
               /\ probe.out.first \in {"trace", "debug", "info", "warning", "error", "critical"}
               /\ probe.out.again = probe.out.first
          ELSE probe.out.first = "ValueError"
    /\ probe.op = "iterate" =>
          /\ Len(probe.out) = 6
          /\ {probe.out[i] : i \in 1..Len(probe.out)}
                = {"trace", "debug", "info", "warning", "error", "critical"}

\* C13 witness: LogLevel("fatal") gave critical, and so did
\* LogLevel(LogLevel("fatal")).
C13_Witness ==
    /\ probe.op = "resolve"
    /\ probe.args = <<"fatal">>
    /\ probe.out.first = "critical"
    /\ probe.out.again = "critical"

\* C14 (level round trip): for every canonical level and every alias, the
\* level string of the serialized payload is the canonical value, and
\* resolving it gives back the level the payload was built with.
C14_LevelRoundTrip ==
    probe.op = "roundtrip" =>
        /\ probe.out.level = LevelOf(probe.args[1])
        /\ probe.out.text["level"].type = "string"
        /\ probe.out.text["level"].text
              \in {"trace", "debug", "info", "warning", "error", "critical"}
        /\ probe.out.resolved = probe.out.level

\* C14 witness: a payload built with LogLevel.WARN was serialized with the
\* level string "warning", which resolved to warning.
C14_Witness ==
    /\ probe.op = "roundtrip"
    /\ probe.args = <<"WARN">>
    /\ probe.out.text["level"].text = "warning"
    /\ probe.out.resolved = "warning"

----------------------------------------------------------------------------
(* sinks/console.py, sinks/rich_console.py, sinks/file.py and             *)
(* sinks/betterstack.py: what _emit does with the payload it is handed    *)

\* ConsoleSink.__init__, RichConsoleSink.__init__ and FileSink.__init__.
ConsoleSink(use_color, ctx, levels) ==
    [kind |-> "console", included_levels |-> levels, default_context |-> ctx,
     emit |-> "ok", close |-> "none", use_color |-> use_color]

RichConsoleSink(pretty_context, ctx, levels) ==
    [kind |-> "rich_console", included_levels |-> levels, default_context |-> ctx,
     emit |-> "ok", close |-> "none", pretty_context |-> pretty_context]

FileSink(append, ctx, levels) ==
    [kind |-> "file", included_levels |-> levels, default_context |-> ctx,
     emit |-> "ok", close |-> "none", mode |-> IF append THEN "a" ELSE "w"]

\* payload.get(key, default).
Get(payload, key, default) == IF key \in DOMAIN payload THEN payload[key] ELSE default

\* str.upper() on the level strings that occur.
Upper(level) ==
    CASE level = "trace" -> "TRACE" [] level = "debug" -> "DEBUG"
      [] level = "info" -> "INFO" [] level = "warning" -> "WARNING"
      [] level = "error" -> "ERROR" [] level = "critical" -> "CRITICAL"
      [] level = "warn" -> "WARN" [] level = "fatal" -> "FATAL"
      [] OTHER -> level

\* A value json.dumps cannot write is marked "<object>"; json.dumps of a
\* dictionary that holds one raises TypeError.
Serializable(d) == \A k \in (DOMAIN d) \ NumberKeys : d[k] # "<object>"

\* The context part of a console line: the payload without level, message
\* and timestamp_ms.
LineContext(payload) == Without(payload, {"level", "message", "timestamp_ms"})

\* ConsoleSink.COLORS.get(level, ""): the palette is keyed by trace, debug,
\* info, warn, error and fatal.
ConsoleColor(level) ==
    IF level \in {"trace", "debug", "info", "warn", "error", "fatal"} THEN level ELSE ""

\* ConsoleSink._emit: the stream is chosen by the level string as the payload
\* spells it; the line is printed to that stream, unless json.dumps of the
\* context raised first.
ConsoleEmit(sink, payload) ==
    LET level == Get(payload, "level", "info")
        stream == IF level \in {"error", "warn", "fatal"} THEN "stderr" ELSE "stdout"
        line == [timestamp_ms |-> Get(payload, "timestamp_ms", 0),
                 level_str |-> Upper(level),
                 color |-> IF sink.use_color THEN ConsoleColor(level) ELSE "",
                 message |-> Get(payload, "message", ""),
                 context |-> LineContext(payload)]
    IN IF ~Serializable(LineContext(payload))
       THEN [raised |-> "TypeError", stdout |-> <<>>, stderr |-> <<>>]
       ELSE [raised |-> "none",
             stdout |-> IF stream = "stdout" THEN <<line>> ELSE <<>>,
             stderr |-> IF stream = "stderr" THEN <<line>> ELSE <<>>]

\* RichConsoleSink._emit: the stderr console for error, warning and
\* critical; pretty_repr writes any context, json.dumps may raise.
RichConsoleEmit(sink, payload) ==
    LET level == Get(payload, "level", "info")
        stream == IF level \in {"error", "warning", "critical"} THEN "stderr" ELSE "stdout"
        line == [timestamp_ms |-> Get(payload, "timestamp_ms", 0),
                 level_str |-> Upper(level),
                 color |-> level,
                 message |-> Get(payload, "message", ""),
                 context |-> LineContext(payload)]
    IN IF ~sink.pretty_context /\ ~Serializable(LineContext(payload))
       THEN [raised |-> "TypeError", stdout |-> <<>>, stderr |-> <<>>]
       ELSE [raised |-> "none",
             stdout |-> IF stream = "stdout" THEN <<line>> ELSE <<>>,
             stderr |-> IF stream = "stderr" THEN <<line>> ELSE <<>>]

\* FileSink._emit on a file that holds the lines of file: open(path, mode)
\* fails with OSError when the path cannot be opened; mode "w" truncates the
\* file at open; json.dumps raises TypeError; write fails with OSError when
\* the disk is full.
FileEmit(sink, file, fault, payload) ==
    LET opened == IF sink.mode = "w" THEN <<>> ELSE file IN
    IF fault = "open" THEN [raised |-> "OSError", file |-> file]
    ELSE IF ~Serializable(payload) THEN [raised |-> "TypeError", file |-> opened]
    ELSE IF fault = "write" THEN [raised |-> "OSError", file |-> opened]
    ELSE [raised |-> "none", file |-> Append(opened, JsonDumps(payload))]

\* BetterstackSink._emit once the client is there: client.post raises
\* TypeError for a payload json cannot write and httpx.ConnectError when the
\* server cannot be reached; raise_for_status raises httpx.HTTPStatusError
\* for a response that is not 2xx.
BetterstackEmit(fault, payload) ==
    IF ~Serializable(payload) THEN [raised |-> "TypeError", posted |-> <<>>]
    ELSE IF fault = "connect" THEN [raised |-> "ConnectError", posted |-> <<>>]
    ELSE IF fault = "status" THEN [raised |-> "HTTPStatusError", posted |-> <<JsonDumps(payload)>>]
    ELSE [raised |-> "none", posted |-> <<JsonDumps(payload)>>]

----------------------------------------------------------------------------
(* SpecSinks: emit of each kind of sink, called on its own                *)

\* The payloads handed to emit: built by _build_payload for each level, with
\* a content that is empty, adds a key, spells the level in the legacy way,
\* or holds a value json cannot write.
SinkContents ==
    {EmptyDict, [user |-> "alice"], [level |-> "warn"], [level |-> "fatal"],
     [obj |-> "<object>"]}

SinkPayloads ==
    {BuildPayload(EmptyDict, "hello", level, content, EmptyDict, now) :
        level \in MemberSet, content \in SinkContents}

SinkContexts == {EmptyDict, [svc |-> "api"]}

\* ConsoleSink.emit(payload): BaseSink.emit, then ConsoleSink._emit.
ConsoleSinkEmit(sink, payload) ==
    /\ probe' = [op |-> "console.emit", args |-> <<sink, payload>>,
                 out |-> ConsoleEmit(sink, EmitMerge(sink, payload))]
    /\ UNCHANGED loggerVars

\* RichConsoleSink.emit(payload).
RichConsoleSinkEmit(sink, payload) ==
    /\ probe' = [op |-> "rich_console.emit", args |-> <<sink, payload>>,
                 out |-> RichConsoleEmit(sink, EmitMerge(sink, payload))]
    /\ UNCHANGED loggerVars

\* FileSink.emit(payload) on a file that holds the lines of file.
FileSinkEmit(sink, file, fault, payload) ==
    /\ probe' = [op |-> "file.emit", args |-> <<sink, payload, file, fault>>,
                 out |-> FileEmit(sink, file, fault, EmitMerge(sink, payload))]
    /\ UNCHANGED loggerVars

\* BetterstackSink.emit(payload).
BetterstackSinkEmit(sink, fault, payload) ==
    /\ probe' = [op |-> "betterstack.emit", args |-> <<sink, payload, fault>>,
                 out |-> BetterstackEmit(fault, EmitMerge(sink, payload))]
    /\ UNCHANGED loggerVars

InitSinks ==
    InitWith("sync", NumSinks, {TestSink(DefaultIncludedLevels, EmptyDict, "ok", "none")},
             {EmptyDict}, 0, 0, 0)

NextSinks ==
    \/ \E use_color \in BOOLEAN, ctx \in SinkContexts, payload \in SinkPayloads :
          ConsoleSinkEmit(ConsoleSink(use_color, ctx, DefaultIncludedLevels), payload)
    \/ \E pretty \in BOOLEAN, ctx \in SinkContexts, payload \in SinkPayloads :
          RichConsoleSinkEmit(RichConsoleSink(pretty, ctx, DefaultIncludedLevels), payload)
    \/ \E append \in BOOLEAN, file \in {<<>>, <<JsonDumps([message |-> "old"])>>},
          fault \in {"none", "open", "write"}, payload \in SinkPayloads :
          FileSinkEmit(FileSink(append, EmptyDict, DefaultIncludedLevels), file, fault, payload)
    \/ \E fault \in {"none", "connect", "status"}, payload \in SinkPayloads :
          BetterstackSinkEmit(BetterstackSink(DefaultIncludedLevels, EmptyDict, "ok"),
                              fault, payload)

SpecSinks == InitSinks /\ [][NextSinks]_vars

\* C15 (console stream routing): a payload that ConsoleSink or
\* RichConsoleSink has written is on exactly one of the two streams, on
\* stderr when its level, after alias resolution, is warning, error or
\* critical, on stdout otherwise.
C15_ConsoleRouting ==
    (probe.op \in {"console.emit", "rich_console.emit"} /\ probe.out.raised = "none") =>
        LET level == LevelOf(Get(probe.args[2], "level", "info")) IN
        /\ Len(probe.out.stdout) + Len(probe.out.stderr) = 1
        /\ Len(probe.out.stderr) = 1 <=> level \in {"warning", "error", "critical"}

\* C16 (failures leave emit as SinkError): whatever fails inside emit, a
\* status that is not 2xx, a connection failure, a file that cannot be
\* written, a payload that cannot be serialized, the exception that crosses
\* emit is SinkError.
C16_SinkErrorWrapping ==
    probe.op \in {"console.emit", "rich_console.emit", "file.emit", "betterstack.emit"} =>
        probe.out.raised \in {"none", "SinkError"}

----------------------------------------------------------------------------
(* SpecConfig: a Logger constructed without a sinks argument, then used   *)

\* What os.getenv returns for a variable: "None" when it is not in the
\* environment, else its value, which may be the empty string.
EnvValues(value) == {"None", "", value}

\* bool(value) for what os.getenv returned: None and "" are false.
Truthy(value) == value \notin {"None", ""}

\* A _default_sinks that leaves Betterstack out when one of the two
\* variables is missing.
DefaultSinksLenient(token, ingest_url, rich) ==
    LET console == IF rich THEN RichConsoleSink(TRUE, EmptyDict, DefaultIncludedLevels)
                   ELSE ConsoleSink(TRUE, EmptyDict, DefaultIncludedLevels)
    IN IF Truthy(token) /\ Truthy(ingest_url)
       THEN [raised |-> "none",
             sinks |-> <<console,
                         Merge(BetterstackSink(DefaultIncludedLevels, EmptyDict, "ok"),
                               [token |-> token, ingest_url |-> ingest_url])>>]
       ELSE [raised |-> "none", sinks |-> <<console>>]

\* _default_sinks(): RichConsoleSink when rich can be imported, else
\* ConsoleSink; then a BetterstackSink when both variables are given, and
\* ConfigError when only one is.
DefaultSinks(token, ingest_url, rich) ==
    LET console == IF rich THEN RichConsoleSink(TRUE, EmptyDict, DefaultIncludedLevels)
                   ELSE ConsoleSink(TRUE, EmptyDict, DefaultIncludedLevels)
    IN IF Truthy(token) \/ Truthy(ingest_url)
       THEN IF ~Truthy(token) \/ ~Truthy(ingest_url)
            THEN [raised |-> "ConfigError", sinks |-> <<>>]
            ELSE [raised |-> "none",
                  sinks |-> <<console,
                              Merge(BetterstackSink(DefaultIncludedLevels, EmptyDict, "ok"),
                                    [token |-> token, ingest_url |-> ingest_url])>>]
       ELSE [raised |-> "none", sinks |-> <<console>>]

\* Logger() with no sinks argument: _LoggerCore.__init__ calls
\* _default_sinks(); an exception leaves the caller without a logger.
Construct(token, ingest_url, rich) ==
    LET made == DefaultSinks(token, ingest_url, rich) IN
    /\ mode = "unbuilt"
    /\ probe' = [op |-> "construct", args |-> <<token, ingest_url, rich>>,
                 out |-> made.raised]
    /\ IF made.raised = "none"
       THEN /\ mode' = "sync"
            /\ sinks' = made.sinks
            /\ received' = [i \in 1..Len(made.sinks) |-> <<>>]
            /\ client' = [i \in 1..Len(made.sinks) |-> 0]
       ELSE UNCHANGED <<mode, sinks, received, client>>
    /\ UNCHANGED <<default_context, calls, stderr, now, ctxOp, budget, closer,
                   closeLog, clients>>

\* Before the constructor has run there is no logger: no sinks, nothing to
\* call.
InitConfig ==
    InitWith("unbuilt", 0, {TestSink(DefaultIncludedLevels, EmptyDict, "ok", "none")},
             {EmptyDict}, MaxCalls, 0, 0)

NextConfig ==
    \/ \E token \in EnvValues("test-token"),
          ingest_url \in EnvValues("https://in.logs.betterstack.com"),
          rich \in BOOLEAN : Construct(token, ingest_url, rich)
    \/ \E c \in CallIds, level \in {"INFO", "ERROR"} : LoggerLog(c, level, EmptyDict)
    \/ \E c \in CallIds : DispatchStep(c)
    \/ \E c \in CallIds : CoreLogReturn(c)

SpecConfig == InitConfig /\ [][NextConfig]_vars

\* C17 (environment auto-configuration): after Logger() with no sinks
\* argument, with neither variable given (absent or empty) the sinks are one
\* console sink; with both given they are a console sink and a Betterstack
\* sink that carries the two values; with exactly one given the constructor
\* raised ConfigError and there is no logger.
C17_EnvAutoConfig ==
    probe.op = "construct" =>
        LET token == probe.args[1]
            ingest_url == probe.args[2]
            given(v) == v # "None" /\ v # ""
        IN /\ (~given(token) /\ ~given(ingest_url)) =>
                  /\ probe.out = "none"
                  /\ Len(sinks) = 1
                  /\ sinks[1].kind \in {"console", "rich_console"}
           /\ (given(token) /\ given(ingest_url)) =>
                  /\ probe.out = "none"
                  /\ Len(sinks) = 2
                  /\ sinks[1].kind \in {"console", "rich_console"}
                  /\ sinks[2].kind = "betterstack"
                  /\ sinks[2].token = token
                  /\ sinks[2].ingest_url = ingest_url
           /\ (given(token) # given(ingest_url)) =>
                  /\ probe.out = "ConfigError"
                  /\ mode = "unbuilt"
                  /\ sinks = <<>>
                  /\ \A c \in CallIds : calls[c].state = "unissued"

\* C17 witness: with only BETTERSTACK_TOKEN in the environment, Logger()
\* raised ConfigError.
C17_Witness ==
    /\ probe.op = "construct"
    /\ probe.args[1] = "test-token"
    /\ probe.args[2] = "None"
    /\ probe.out = "ConfigError"

----------------------------------------------------------------------------
(* SpecBuild: log calls whose level argument may be no LogLevel, on sinks *)
(* whose emit may raise                                                   *)

\* An attribute lookup that any string answers with itself.
LevelValueLenient(level) == level

\* level.value in _build_payload: the value of a member; a level argument
\* that is no LogLevel (a token such as "bogus" or "warn" passed as it is)
\* has no such attribute, and "AttributeError" stands for the exception.
LevelValue(level) == IF level \in MemberSet THEN level ELSE "AttributeError"

\* Logger.log(message, level, content) with a level argument that was not
\* taken from LogLevel by name: _build_payload runs in the caller's thread,
\* and what it raises is raised by log, before _dispatch is reached.
LoggerLogUntyped(c, level, content) ==
    /\ mode = "sync"
    /\ CallerFree
    /\ NextCall(c)
    /\ calls' = [calls EXCEPT ![c] =
                    IF LevelValue(level) = "AttributeError"
                    THEN [NoCall EXCEPT !.state = "raised", !.message = Message(c),
                                        !.arg = level, !.content = content,
                                        !.caller = CallerInfo(c),
                                        !.exc = "AttributeError",
                                        !.opsAtIssue = ctxOp.seq, !.opsAtBuild = ctxOp.seq]
                    ELSE [state |-> "dispatch", message |-> Message(c), arg |-> level,
                          level |-> LevelValue(level), content |-> content,
                          caller |-> CallerInfo(c),
                          payload |-> BuildPayload(default_context, Message(c),
                                                   LevelValue(level), content,
                                                   CallerInfo(c), now),
                          idx |-> 1, visits |-> <<>>, exc |-> "none",
                          opsAtIssue |-> ctxOp.seq, opsAtBuild |-> ctxOp.seq]]
    /\ UNCHANGED <<probe, mode, sinks, default_context, received, stderr, now,
                   ctxOp, budget, closer, closeLog, client, clients>>

BuildSinks ==
    {TestSink(DefaultIncludedLevels, EmptyDict, emit, "none") : emit \in {"ok", "raises"}}

\* The level arguments: the member INFO, and two strings that are no
\* member.
BuildLevels == {"info", "warn", "bogus"}

\* The contents: none, and one whose key level is no severity, which
\* _build_payload merges like any other key.
BuildContents == {EmptyDict, [level |-> "bogus"]}

InitBuild == InitWith("sync", NumSinks, BuildSinks, {EmptyDict}, MaxCalls, 0, 0)

NextBuild ==
    \/ \E c \in CallIds, level \in BuildLevels, content \in BuildContents :
          LoggerLogUntyped(c, level, content)
    \/ \E c \in CallIds : DispatchStep(c)
    \/ \E c \in CallIds : CoreLogReturn(c)

SpecBuild == InitBuild /\ [][NextBuild]_vars

\* C20 (error propagation split): a log call whose level argument is not a
\* recognized severity fails while the payload is built: it raises to its
\* caller, reaches no sink and prints nothing.  A call whose payload was
\* built never raises: an emit that raises is caught and is on stderr, once
\* for that sink, and the call goes on and returns.  (A level that the
\* content put into the payload is not looked at while the payload is built;
\* _dispatch fails on it once per sink and reports it the same way.)
C20_ErrorPropagationSplit ==
    \A c \in CallIds :
        /\ (calls[c].state # "unissued"
              /\ calls[c].arg \notin {"trace", "debug", "info", "warning", "error", "critical"})
            => /\ calls[c].state = "raised"
               /\ calls[c].exc # "none"
               /\ calls[c].visits = <<>>
               /\ \A i \in 1..Len(sinks) : Deliveries(i, c) = 0
               /\ \A n \in 1..Len(stderr) : stderr[n].call # c
        /\ (calls[c].state # "unissued"
              /\ calls[c].arg \in {"trace", "debug", "info", "warning", "error", "critical"})
            => /\ calls[c].state # "raised"
               /\ calls[c].exc = "none"
               /\ \A k \in 1..Len(calls[c].visits) :
                     LET lines == {n \in 1..Len(stderr) :
                                     stderr[n].call = c /\ stderr[n].sink = k}
                         kind == calls[c].visits[k].kind
                     IN /\ kind \in {"emit_failed", "level_failed"} <=> Cardinality(lines) = 1
                        /\ kind \in {"emitted", "skipped"} <=> lines = {}
                        /\ (sinks[k].emit = "raises" /\ "level" \notin DOMAIN calls[c].content)
                              => kind = "emit_failed"

\* C20 witness: one call raised to its caller for the level "bogus", and
\* another one returned although the emit of its first sink had raised.
C20_Witness ==
    \E c, d \in CallIds :
        /\ calls[c].state = "raised" /\ calls[c].arg = "bogus"
        /\ HasReturned(d)
        /\ calls[d].visits[1].kind = "emit_failed"
        /\ \E n \in 1..Len(stderr) : stderr[n].call = d /\ stderr[n].sink = 1

----------------------------------------------------------------------------
(* The payloads a sink is handed, checked under Spec *)

\* C18 (payload well-formedness): every payload a sink was handed has the
\* keys timestamp_ms, message and level, and its level is one of the six
\* canonical strings trace, debug, info, warning, error, critical, never an
\* alias and never another token.
C18_PayloadWellFormed ==
    \A i \in 1..Len(sinks) :
        \A j \in 1..Len(received[i]) :
            /\ {"timestamp_ms", "message", "level"} \subseteq DOMAIN received[i][j]
            /\ received[i][j]["level"] \in
                   {"trace", "debug", "info", "warning", "error", "critical"}

----------------------------------------------------------------------------
(* SpecShared: sinks whose _emit changes the mapping it is handed *)

SharedContexts == {EmptyDict, [service |-> "api"]}

\* Sinks with and without a context of their own, recording or changing the
\* payload.
SharedSinks ==
    {TestSink(DefaultIncludedLevels, ctx, emit, "none") :
        ctx \in SharedContexts, emit \in {"ok", "mutates"}}

\* The contents: none, and one that has the key a changing sink stores.
SharedContents == {EmptyDict, [touched |-> "no"]}

InitShared == InitWith("sync", NumSinks, SharedSinks, {EmptyDict}, MaxCalls, 0, 0)

NextShared ==
    \/ \E c \in CallIds, content \in SharedContents : LoggerLog(c, "INFO", content)
    \/ \E c \in CallIds : DispatchStep(c)
    \/ \E c \in CallIds : CoreLogReturn(c)

SpecShared == InitShared /\ [][NextShared]_vars

\* The payload _build_payload returned for call c (the clock stands still
\* and no context operation runs under SpecShared).
BuiltPayload(c) ==
    BuildPayload(default_context, calls[c].message, calls[c].level, calls[c].content,
                 calls[c].caller, now)

\* C19 (each destination receives its own merged payload): within one
\* dispatch every sink is handed the merge of its own context with the
\* payload as it was built, whatever the _emit of an earlier sink did to the
\* mapping it was handed; the sink's context is the one it was given; and
\* with sinks that only record, the call's payload stays as it was built.
C19_OwnMergedPayload ==
    \A c \in CallIds :
        /\ \A k \in 1..Len(calls[c].visits) :
              calls[c].visits[k].kind = "emitted" =>
                  /\ sinks[k].default_context \in SharedContexts
                  /\ DeliveredTo(k, c) = {EmitMerge(sinks[k], BuiltPayload(c))}
        /\ (calls[c].state # "unissued" /\ \A k \in 1..Len(sinks) : sinks[k].emit = "ok")
              => calls[c].payload = BuiltPayload(c)

----------------------------------------------------------------------------
(* SpecConvenience: log_endpoint and log_exception *)

\* An optional dictionary argument: None, or a dictionary.
NoneDict == [given |-> FALSE, value |-> EmptyDict]

SomeDict(d) == [given |-> TRUE, value |-> d]

\* arg or {}: the dictionary when one was given and it is not empty.
OrEmpty(arg) == IF arg.given /\ arg.value # EmptyDict THEN arg.value ELSE EmptyDict

\* The endpoint name call number c uses ("e1", "e2", ...).
EndpointName(c) ==
    CASE c = 1 -> "e1"
      [] c = 2 -> "e2"
      [] c = 3 -> "e3"
      [] OTHER -> "e4"

\* f"Endpoint Invoked: {endpoint_name}" for the names in use.
EndpointMessage(endpoint_name) ==
    CASE endpoint_name = "e1" -> "Endpoint Invoked: e1"
      [] endpoint_name = "e2" -> "Endpoint Invoked: e2"
      [] endpoint_name = "e3" -> "Endpoint Invoked: e3"
      [] OTHER -> "Endpoint Invoked: e4"

\* The fields log_endpoint generates, before the context is spread over
\* them.
EndpointFields(endpoint_name, method, path, headers, query_params, body) ==
    [event_source |-> "http_endpoint",
     event_type |-> "endpoint_invocation",
     endpoint_name |-> endpoint_name,
     request |-> [method |-> method, path |-> path, query |-> OrEmpty(query_params),
                  headers |-> headers, body |-> body]]

\* A content in which the generated fields are spread over the context.
EndpointContentContextFirst(endpoint_name, method, path, headers, query_params, body, context) ==
    Merge(OrEmpty(context),
          EndpointFields(endpoint_name, method, path, headers, query_params, body))

\* _LoggerCore.log_endpoint, the content it hands to log: the generated
\* fields with **(context or {}) spread last.
EndpointContent(endpoint_name, method, path, headers, query_params, body, context) ==
    Merge(EndpointFields(endpoint_name, method, path, headers, query_params, body),
          OrEmpty(context))

\* An exception: its class name, str(exception), and the frames of its
\* __traceback__ (none when it was never raised).
Exceptions ==
    {[type |-> "ValueError", text |-> "boom", frames |-> <<"app.py:12 in handler">>],
     [type |-> "KeyError", text |-> "'k'", frames |-> <<>>]}

\* traceback.format_exception(type(e), e, e.__traceback__): a header and one
\* entry per frame when there is a traceback, then the line "Type: text".
\* Every line is a sequence of its parts.
FormatException(exception) ==
    (IF exception.frames = <<>>
     THEN <<>>
     ELSE <<(<<"Traceback (most recent call last):">>)>> \o
          [n \in 1..Len(exception.frames) |-> <<"  File ", exception.frames[n]>>])
    \o <<(<<exception.type, ": ", exception.text>>)>>

\* The fields log_exception generates.
ExceptionFields(exception) ==
    [event_type |-> "exception",
     exception_type |-> exception.type,
     exception_message |-> exception.text,
     traceback |-> FormatException(exception)]

\* _LoggerCore.log_exception, the content it hands to log.
ExceptionContent(exception, context) == Merge(ExceptionFields(exception), OrEmpty(context))

\* Logger.log_endpoint with _LoggerCore.log_endpoint and _LoggerCore.log up
\* to the call of _dispatch: one call of log, with LogLevel.INFO.
LoggerLogEndpoint(c, method, path, headers, query_params, body, context) ==
    /\ probe' = [op |-> "log_endpoint",
                 args |-> <<c, EndpointName(c), method, path, headers, query_params, body,
                            context>>,
                 out |-> "none"]
    /\ mode = "sync"
    /\ CallerFree
    /\ NextCall(c)
    /\ LET message == EndpointMessage(EndpointName(c))
           content == EndpointContent(EndpointName(c), method, path, headers,
                                      query_params, body, context)
       IN calls' = [calls EXCEPT ![c] =
                      [state |-> "dispatch", message |-> message, arg |-> "INFO",
                       level |-> MemberByName("INFO"), content |-> content,
                       caller |-> CallerInfo(c),
                       payload |-> BuildPayload(default_context, message,
                                                MemberByName("INFO"), content,
                                                CallerInfo(c), now),
                       idx |-> 1, visits |-> <<>>, exc |-> "none",
                       opsAtIssue |-> ctxOp.seq, opsAtBuild |-> ctxOp.seq]]
    /\ UNCHANGED <<mode, sinks, default_context, received, stderr, now,
                   ctxOp, budget, closer, closeLog, client, clients>>

\* Logger.log_exception with _LoggerCore.log_exception and _LoggerCore.log
\* up to the call of _dispatch: one call of log, with LogLevel.ERROR.
LoggerLogException(c, exception, context) ==
    /\ probe' = [op |-> "log_exception", args |-> <<c, Message(c), exception, context>>,
                 out |-> "none"]
    /\ mode = "sync"
    /\ CallerFree
    /\ NextCall(c)
    /\ LET content == ExceptionContent(exception, context)
       IN calls' = [calls EXCEPT ![c] =
                      [state |-> "dispatch", message |-> Message(c), arg |-> "ERROR",
                       level |-> MemberByName("ERROR"), content |-> content,
                       caller |-> CallerInfo(c),
                       payload |-> BuildPayload(default_context, Message(c),
                                                MemberByName("ERROR"), content,
                                                CallerInfo(c), now),
                       idx |-> 1, visits |-> <<>>, exc |-> "none",
                       opsAtIssue |-> ctxOp.seq, opsAtBuild |-> ctxOp.seq]]
    /\ UNCHANGED <<mode, sinks, default_context, received, stderr, now,
                   ctxOp, budget, closer, closeLog, client, clients>>

ConvenienceSinks == {TestSink(DefaultIncludedLevels, EmptyDict, "ok", "none")}

ConvenienceDefaults == {EmptyDict, [service |-> "api", event_type |-> "default"]}

\* The context arguments: none, an empty one, new keys, and keys that the
\* operations generate themselves.
ConvenienceContexts ==
    {NoneDict, SomeDict(EmptyDict), SomeDict([request_id |-> "r1"]),
     SomeDict([event_type |-> "custom", endpoint_name |-> "renamed",
               exception_type |-> "Custom"])}

ConvenienceQueries == {NoneDict, SomeDict(EmptyDict), SomeDict([page |-> "2"])}

ConvenienceBodies == {"None", "{}"}

InitConvenience ==
    InitWith("sync", NumSinks, ConvenienceSinks, ConvenienceDefaults, MaxCalls, 0, 0)

NextConvenience ==
    \/ \E c \in CallIds, query_params \in ConvenienceQueries, body \in ConvenienceBodies,
          context \in ConvenienceContexts :
          LoggerLogEndpoint(c, "GET", "/users", [accept |-> "json"], query_params, body,
                            context)
    \/ \E c \in CallIds, exception \in Exceptions, context \in ConvenienceContexts :
          LoggerLogException(c, exception, context)
    \/ \E c \in CallIds : DispatchStep(c)
    \/ \E c \in CallIds : CoreLogReturn(c)

SpecConvenience == InitConvenience /\ [][NextConvenience]_vars

\* The value a payload has for key k when its content was generated from
\* fields and a context argument: the context's, else the generated one.
ContextLast(fields, context, k) ==
    IF context.given /\ k \in DOMAIN context.value THEN context.value[k] ELSE fields[k]

\* C21 (convenience operations): the latest log_endpoint call made one
\* dispatch, at level info, with the message "Endpoint Invoked: " + name and
\* a request holding method, path, query (the empty mapping when none was
\* given), headers and body; the latest log_exception call made one
\* dispatch, at level error, holding the type name, the string and the
\* traceback of the exception; in both, every key of the context argument
\* has the context's value in the payload, and every other generated field
\* has the generated value.  Once the call has returned every sink was
\* handed that payload exactly once.
C21_ConvenienceOperations ==
    probe.op \in {"log_endpoint", "log_exception"} =>
        LET c == probe.args[1]
            p == calls[c].payload
            context == probe.args[Len(probe.args)]
            fields == IF probe.op = "log_endpoint"
                      THEN [event_source |-> "http_endpoint",
                            event_type |-> "endpoint_invocation",
                            endpoint_name |-> probe.args[2],
                            request |-> [method |-> probe.args[3], path |-> probe.args[4],
                                         query |-> IF probe.args[6].given
                                                   THEN probe.args[6].value
                                                   ELSE EmptyDict,
                                         headers |-> probe.args[5],
                                         body |-> probe.args[7]]]
                      ELSE [event_type |-> "exception",
                            exception_type |-> probe.args[3].type,
                            exception_message |-> probe.args[3].text,
                            traceback |-> FormatException(probe.args[3])]
        IN /\ calls[c].level = IF probe.op = "log_endpoint" THEN "info" ELSE "error"
           /\ p["level"] = calls[c].level
           /\ p["message"] = IF probe.op = "log_endpoint"
                             THEN EndpointMessage(probe.args[2])
                             ELSE probe.args[2]
           /\ \A k \in DOMAIN fields : p[k] = ContextLast(fields, context, k)
           /\ context.given => \A k \in DOMAIN context.value : p[k] = context.value[k]
           /\ \A d \in CallIds : d # c => calls[d].message # calls[c].message
           /\ \A i \in 1..Len(sinks) :
                 /\ Deliveries(i, c) <= 1
                 /\ HasReturned(c) => DeliveredTo(i, c) = {p}

\* C21 witness: a log_endpoint call without query parameters returned, its
\* context having replaced the generated event_type; before it a
\* log_exception call with a traceback was delivered at level error.
C21_Witness ==
    /\ probe.op = "log_endpoint"
    /\ ~probe.args[6].given
    /\ probe.args[8].given /\ "event_type" \in DOMAIN probe.args[8].value
    /\ HasReturned(probe.args[1])
    /\ \E p \in DeliveredTo(1, probe.args[1]) :
          p["event_type"] = "custom" /\ p["request"].query = EmptyDict
    /\ \E d \in CallIds :
          /\ HasReturned(d)
          /\ \E p \in DeliveredTo(2, d) :
                /\ p["level"] = "error"
                /\ Len(p["traceback"]) = 3
                /\ p["exception_type"] = "ValueError"

----------------------------------------------------------------------------
(* SpecEquivalence: a Logger and an AsyncLogger run the same sequence of *)
(* calls, each awaited before the next                                   *)

\* AsyncLogger.log_endpoint up to the await: _LoggerCore.log_endpoint is
\* handed to a worker thread with the arguments and the caller's location
\* (the content it will build depends on the arguments only).
AsyncLoggerLogEndpoint(c, method, path, headers, query_params, body, context) ==
    /\ mode = "async"
    /\ NextCall(c)
    /\ calls' = [calls EXCEPT ![c] =
                    [state |-> "submitted", message |-> EndpointMessage(EndpointName(c)),
                     arg |-> "INFO", level |-> MemberByName("INFO"),
                     content |-> EndpointContent(EndpointName(c), method, path, headers,
                                                 query_params, body, context),
                     caller |-> CallerInfo(c), payload |-> EmptyDict,
                     idx |-> 0, visits |-> <<>>, exc |-> "none",
                     opsAtIssue |-> ctxOp.seq, opsAtBuild |-> 0]]
    /\ UNCHANGED <<probe, mode, sinks, default_context, received, stderr, now,
                   ctxOp, budget, closer, closeLog, client, clients>>

\* AsyncLogger.log_exception up to the await.
AsyncLoggerLogException(c, exception, context) ==
    /\ mode = "async"
    /\ NextCall(c)
    /\ calls' = [calls EXCEPT ![c] =
                    [state |-> "submitted", message |-> Message(c),
                     arg |-> "ERROR", level |-> MemberByName("ERROR"),
                     content |-> ExceptionContent(exception, context),
                     caller |-> CallerInfo(c), payload |-> EmptyDict,
                     idx |-> 0, visits |-> <<>>, exc |-> "none",
                     opsAtIssue |-> ctxOp.seq, opsAtBuild |-> 0]]
    /\ UNCHANGED <<probe, mode, sinks, default_context, received, stderr, now,
                   ctxOp, budget, closer, closeLog, client, clients>>

\* Logger.log_endpoint / Logger.log_exception as LoggerLogEndpoint and
\* LoggerLogException do them, the record of the last call left alone.
SyncLogEndpoint(c, method, path, headers, query_params, body, context) ==
    /\ mode = "sync"
    /\ CallerFree
    /\ NextCall(c)
    /\ LET message == EndpointMessage(EndpointName(c))
           content == EndpointContent(EndpointName(c), method, path, headers,
                                      query_params, body, context)
       IN calls' = [calls EXCEPT ![c] =
                      [state |-> "dispatch", message |-> message, arg |-> "INFO",
                       level |-> MemberByName("INFO"), content |-> content,
                       caller |-> CallerInfo(c),
                       payload |-> BuildPayload(default_context, message,
                                                MemberByName("INFO"), content,
                                                CallerInfo(c), now),
                       idx |-> 1, visits |-> <<>>, exc |-> "none",
                       opsAtIssue |-> ctxOp.seq, opsAtBuild |-> ctxOp.seq]]
    /\ UNCHANGED <<probe, mode, sinks, default_context, received, stderr, now,
                   ctxOp, budget, closer, closeLog, client, clients>>

SyncLogException(c, exception, context) ==
    /\ mode = "sync"
    /\ CallerFree
    /\ NextCall(c)
    /\ LET content == ExceptionContent(exception, context)
       IN calls' = [calls EXCEPT ![c] =
                      [state |-> "dispatch", message |-> Message(c), arg |-> "ERROR",
                       level |-> MemberByName("ERROR"), content |-> content,
                       caller |-> CallerInfo(c),
                       payload |-> BuildPayload(default_context, Message(c),
                                                MemberByName("ERROR"), content,
                                                CallerInfo(c), now),
                       idx |-> 1, visits |-> <<>>, exc |-> "none",
                       opsAtIssue |-> ctxOp.seq, opsAtBuild |-> ctxOp.seq]]
    /\ UNCHANGED <<probe, mode, sinks, default_context, received, stderr, now,
                   ctxOp, budget, closer, closeLog, client, clients>>

\* The length of the sequence of calls a program makes.
ScriptLength == MaxCalls + 1

\* The calls a program can make: one of each operation of the two loggers,
\* with the arguments given (dict: content, context or kwargs).
ScriptSteps ==
    {[op |-> "log", level |-> "TRACE", dict |-> [a |-> "9"], keys |-> <<>>],
     [op |-> "log_endpoint", level |-> "INFO", dict |-> [request_id |-> "r1"], keys |-> <<>>],
     [op |-> "log_exception", level |-> "ERROR", dict |-> EmptyDict, keys |-> <<>>],
     [op |-> "update_context", level |-> "", dict |-> [a |-> "2", b |-> "2"], keys |-> <<>>],
     [op |-> "remove_context", level |-> "", dict |-> EmptyDict, keys |-> <<"a">>],
     [op |-> "clear_context", level |-> "", dict |-> EmptyDict, keys |-> <<>>],
     [op |-> "close", level |-> "", dict |-> EmptyDict, keys |-> <<>>]}

Scripts == [1..ScriptLength -> ScriptSteps]

\* The exception the program logs.
ScriptException == [type |-> "ValueError", text |-> "boom", frames |-> <<"app.py:12 in handler">>]

EquivalenceSinks ==
    {TestSink(InfoAndUp, [svc |-> "api"], "ok", "ok"),
     TestSink(DefaultIncludedLevels, EmptyDict, "ok", "raises")}

EquivalenceContext == [a |-> "1"]

\* Either logger, constructed with the same sinks and default context; the
\* program it is going to run is kept in probe.
InitEquivalence ==
    /\ mode \in {"sync", "async"}
    /\ sinks \in [1..NumSinks -> EquivalenceSinks]
    /\ default_context = EquivalenceContext
    /\ calls = [c \in 1..ScriptLength |-> NoCall]
    /\ received = [i \in 1..NumSinks |-> <<>>]
    /\ stderr = <<>>
    /\ now = 1
    /\ ctxOp = NoOp
    /\ budget = [ops |-> ScriptLength, closes |-> ScriptLength]
    /\ closer = [state |-> "idle", idx |-> 0, exc |-> "none", snaps |-> <<>>]
    /\ closeLog = <<>>
    /\ client = [i \in 1..NumSinks |-> 0]
    /\ clients = <<>>
    /\ probe \in {[op |-> "script", args |-> s, out |-> "none"] : s \in Scripts}

\* The number of calls of the program that have been made.
ScriptPos ==
    Cardinality({c \in CallIds : calls[c].state # "unissued"})
        + ctxOp.seq + (ScriptLength - budget.closes)

\* The previous call has returned (has been awaited) and the program has a
\* next call, which is an op.
ScriptAt(op) ==
    /\ Quiet
    /\ closer.state \in {"idle", "returned"}
    /\ ScriptPos < Len(probe.args)
    /\ probe.args[ScriptPos + 1].op = op

ScriptStep == probe.args[ScriptPos + 1]

NextEquivalence ==
    \/ \E c \in CallIds :
          ScriptAt("log") /\ LoggerLog(c, ScriptStep.level, ScriptStep.dict)
    \/ \E c \in CallIds :
          ScriptAt("log") /\ AsyncLoggerLog(c, ScriptStep.level, ScriptStep.dict)
    \/ \E c \in CallIds :
          /\ ScriptAt("log_endpoint")
          /\ SyncLogEndpoint(c, "GET", "/users", [accept |-> "json"], NoneDict, "None",
                             SomeDict(ScriptStep.dict))
    \/ \E c \in CallIds :
          /\ ScriptAt("log_endpoint")
          /\ AsyncLoggerLogEndpoint(c, "GET", "/users", [accept |-> "json"], NoneDict, "None",
                                    SomeDict(ScriptStep.dict))
    \/ \E c \in CallIds :
          ScriptAt("log_exception") /\ SyncLogException(c, ScriptException, NoneDict)
    \/ \E c \in CallIds :
          ScriptAt("log_exception") /\ AsyncLoggerLogException(c, ScriptException, NoneDict)
    \/ ScriptAt("update_context") /\ UpdateContext(ScriptStep.dict)
    \/ ScriptAt("remove_context") /\ RemoveContext(ScriptStep.keys)
    \/ ScriptAt("clear_context") /\ ClearContext
    \/ ScriptAt("close") /\ LoggerClose
    \/ \E c \in CallIds : ThreadBuild(c)
    \/ \E c \in CallIds : DispatchStep(c)
    \/ \E c \in CallIds : CoreLogReturn(c)
    \/ \E c \in CallIds : AwaitResume(c)
    \/ CloseStep
    \/ CloseReturn
    \/ AwaitClose

SpecEquivalence == InitEquivalence /\ [][NextEquivalence]_vars

\* _LoggerCore._dispatch run from sink i to the last sink in one go: the
\* payloads the sinks have been handed, rcv, grown by this dispatch.
RECURSIVE DispatchAll(_, _, _)
DispatchAll(payload, rcv, i) ==
    IF i > Len(sinks)
    THEN rcv
    ELSE IF VisitKind(sinks[i], payload) = "emitted"
         THEN DispatchAll(PayloadAfterEmit(sinks[i], payload),
                          [rcv EXCEPT ![i] = Append(@, EmitMerge(sinks[i], payload))],
                          i + 1)
         ELSE DispatchAll(payload, rcv, i + 1)

\* One call of a Logger, run to its return: the logger's default context,
\* what its sinks have been handed and the number of log calls made, after
\* the call.
LoggerCall(st, step) ==
    LET c == st.calls + 1
        logged(message, level, content) ==
            [st EXCEPT !.calls = c,
                       !.received = DispatchAll(BuildPayload(st.ctx, message,
                                                             MemberByName(level), content,
                                                             CallerInfo(c), now),
                                                st.received, 1)]
    IN CASE step.op = "log" -> logged(Message(c), step.level, step.dict)
         [] step.op = "log_endpoint" ->
                logged(EndpointMessage(EndpointName(c)), "INFO",
                       EndpointContent(EndpointName(c), "GET", "/users", [accept |-> "json"],
                                       NoneDict, "None", SomeDict(step.dict)))
         [] step.op = "log_exception" ->
                logged(Message(c), "ERROR", ExceptionContent(ScriptException, NoneDict))
         [] step.op = "update_context" ->
                [st EXCEPT !.ctx = CoreUpdateContext(st.ctx, step.dict)]
         [] step.op = "remove_context" ->
                [st EXCEPT !.ctx = CoreRemoveContext(st.ctx, step.keys).after]
         [] step.op = "clear_context" -> [st EXCEPT !.ctx = CoreClearContext(st.ctx)]
         [] OTHER -> st

\* A Logger constructed like the logger at hand, after the first n calls of
\* the program.
RECURSIVE LoggerRun(_)
LoggerRun(n) ==
    IF n = 0
    THEN [ctx |-> EquivalenceContext, received |-> [i \in 1..Len(sinks) |-> <<>>], calls |-> 0]
    ELSE LoggerCall(LoggerRun(n - 1), probe.args[n])

\* A sequence of payloads without the timestamp and the caller's location.
Comparable(payloads) ==
    [j \in 1..Len(payloads) |->
        Without(payloads[j], {"timestamp_ms", "caller_file", "caller_line", "caller_function"})]

\* C22 (the async wrapper does not change dispatch semantics): whenever the
\* logger at hand, a Logger or an AsyncLogger, has returned from (its caller
\* has awaited) the calls made so far, every sink has been handed the same
\* sequence of payloads, timestamp and caller location aside, as a Logger
\* with the same sinks and default context that ran the same calls, and the
\* default contexts are the same.
C22_AsyncEquivalence ==
    (probe.op = "script" /\ Quiet /\ closer.state \in {"idle", "returned"}) =>
        /\ default_context = LoggerRun(ScriptPos).ctx
        /\ \A i \in 1..Len(sinks) :
              Comparable(received[i]) = Comparable(LoggerRun(ScriptPos).received[i])

\* C22 witness: an AsyncLogger has run a whole program that logged after
\* having changed the context, and the first sink skipped or was handed
\* payloads while the second one was handed one that has the changed
\* context.
C22_Witness ==
    /\ probe.op = "script"
    /\ mode = "async"
    /\ ScriptPos = ScriptLength
    /\ Quiet /\ closer.state \in {"idle", "returned"}
    /\ probe.args[1].op = "update_context"
    /\ probe.args[2].op = "close"
    /\ probe.args[3].op = "log_endpoint"
    /\ Len(received[1]) = 1 /\ Len(received[2]) = 1
    /\ received[2][1]["b"] = "2"
    /\ received[2][1]["request_id"] = "r1"

----------------------------------------------------------------------------
(* SpecMap: context operations on a Logger and on its sinks, and the log *)
(* calls that follow them                                                *)

\* The content of call c: every second call passes the key x itself.
MapContent(c) == IF c % 2 = 1 THEN EmptyDict ELSE [x |-> "9"]

InitMap ==
    InitWith("sync", NumContextSinks, ContextSinks, ContextContexts, MaxCalls, MaxCtxOps, 0)

NextMap ==
    \/ \E kwargs \in ContextKwargs : UpdateContext(kwargs)
    \/ \E keys \in ContextKeys : RemoveContext(keys)
    \/ ClearContext
    \/ \E i \in 1..Len(sinks), kwargs \in ContextKwargs : SinkUpdate(i, kwargs)
    \/ \E i \in 1..Len(sinks), keys \in ContextKeys : SinkRemove(i, keys)
    \/ \E i \in 1..Len(sinks) : SinkClear(i)
    \/ \E c \in CallIds : LoggerLog(c, "INFO", MapContent(c))
    \/ \E c \in CallIds : DispatchStep(c)
    \/ \E c \in CallIds : CoreLogReturn(c)

SpecMap == InitMap /\ [][NextMap]_vars

\* The reference map after one operation: update inserts or overwrites the
\* given pairs and keeps every other key, remove deletes the listed keys
\* when all of them are present and changes nothing otherwise, clear yields
\* the empty map.
ReferenceMap(before, op, kwargs, keys) ==
    CASE op = "update" ->
            [k \in DOMAIN before \cup DOMAIN kwargs |->
                IF k \in DOMAIN kwargs THEN kwargs[k] ELSE before[k]]
      [] op = "remove" ->
            IF SeqToSet(keys) \subseteq DOMAIN before
            THEN [k \in DOMAIN before \ SeqToSet(keys) |-> before[k]]
            ELSE before
      [] op = "clear" -> [k \in {} |-> "x"]
      [] OTHER -> before

----------------------------------------------------------------------------
(* SpecLive: log calls of a Logger or an AsyncLogger run to completion *)

\* A sink that filters and one whose emit raises.
LiveSinks ==
    {TestSink(InfoAndUp, EmptyDict, "ok", "none"),
     TestSink(DefaultIncludedLevels, EmptyDict, "raises", "none")}

\* The level of call c: every second call is below the filter InfoAndUp.
LiveLevel(c) == IF c % 2 = 1 THEN "INFO" ELSE "TRACE"

InitLive ==
    \E m \in {"sync", "async"} : InitWith(m, NumSinks, LiveSinks, {EmptyDict}, MaxCalls, 0, 0)

NextLive ==
    \/ \E c \in CallIds : LoggerLog(c, LiveLevel(c), EmptyDict)
    \/ \E c \in CallIds : AsyncLoggerLog(c, LiveLevel(c), EmptyDict)
    \/ \E c \in CallIds : ThreadBuild(c)
    \/ \E c \in CallIds : DispatchStep(c)
    \/ \E c \in CallIds : CoreLogReturn(c)
    \/ \E c \in CallIds : AwaitResume(c)

\* A thread that can run does run (the caller's thread in the loop of
\* _dispatch, a worker thread of asyncio.to_thread), every emit returns or
\* raises, and the event loop resumes a coroutine whose thread is done.
Fairness ==
    \A c \in 1..MaxCalls :
        /\ WF_vars(ThreadBuild(c))
        /\ WF_vars(DispatchStep(c))
        /\ WF_vars(CoreLogReturn(c))
        /\ WF_vars(AwaitResume(c))

SpecLive == InitLive /\ [][NextLive]_vars /\ Fairness

\* Call c has gone through the whole list: one visit per sink, in the order
\* of the list, each a skip, an emit or a reported failure, and every sink
\* was handed the payload once when it was emitted to and never otherwise.
VisitedEverySinkOnce(c) ==
    /\ Len(calls[c].visits) = Len(sinks)
    /\ \A k \in 1..Len(sinks) :
          /\ calls[c].visits[k].sink = k
          /\ calls[c].visits[k].kind \in {"skipped", "emitted", "emit_failed", "level_failed"}
          /\ Deliveries(k, c) = IF calls[c].visits[k].kind = "emitted" THEN 1 ELSE 0
          /\ calls[c].visits[k].kind \in {"emit_failed", "level_failed"} =>
                Cardinality({n \in 1..Len(stderr) :
                                stderr[n].call = c /\ stderr[n].sink = k}) = 1

\* C24 (no cancellation, guaranteed completion): a log call whose dispatch
\* has begun eventually returns to its caller (its awaitable completes),
\* and a call that has returned has visited every sink of the list exactly
\* once, each sink skipped by its filter, emitted to, or failed and
\* reported.
C24_GuaranteedCompletion ==
    \A c \in 1..MaxCalls :
        /\ (calls[c].state = "dispatch") ~> HasReturned(c)
        /\ [](HasReturned(c) => VisitedEverySinkOnce(c))

\* C24 witness: the awaitable of an AsyncLogger call has completed after
\* a reported failure of the first sink and an emit to the second, and
\* another call has returned after the filter of a sink skipped it.
C24_Witness ==
    /\ mode = "async"
    /\ \E c, d \in CallIds :
          /\ HasReturned(c) /\ HasReturned(d)
          /\ calls[c].visits[1].kind = "emit_failed"
          /\ calls[c].visits[2].kind = "emitted"
          /\ \E k \in 1..Len(sinks) : calls[d].visits[k].kind = "skipped"

----------------------------------------------------------------------------
(* SpecLifecycle: emits and closes of Betterstack sinks, one after another *)

\* One sink whose POST succeeds, and one that filters and whose POST fails.
LifecycleSinks ==
    {BetterstackSink(DefaultIncludedLevels, EmptyDict, "ok"),
     BetterstackSink(InfoAndUp, EmptyDict, "raises")}

InitLifecycle ==
    InitWith("sync", NumSinks, LifecycleSinks, {EmptyDict}, MaxCalls + 1, 0, MaxCloses)

NextLifecycle ==
    \/ \E c \in CallIds : LoggerLog(c, LiveLevel(c), EmptyDict)
    \/ \E c \in CallIds : DispatchStep(c)
    \/ \E c \in CallIds : CoreLogReturn(c)
    \/ LoggerClose
    \/ CloseStep
    \/ CloseReturn
    \/ \E i \in 1..Len(sinks) : SinkCloseDirect(i)

SpecLifecycle == InitLifecycle /\ [][NextLifecycle]_vars

\* The step is an emit of sink i: a dispatch has called its emit.
EmitOf(i) ==
    \E c \in CallIds :
        /\ Len(calls'[c].visits) = Len(calls[c].visits) + 1
        /\ calls'[c].visits[Len(calls'[c].visits)].sink = i
        /\ calls'[c].visits[Len(calls'[c].visits)].kind \in {"emitted", "emit_failed"}

\* The step is a close of sink i, through the logger or on the sink.
CloseOf(i) ==
    /\ Len(closeLog') = Len(closeLog) + 1
    /\ closeLog'[Len(closeLog')].sink = i
    /\ closeLog'[Len(closeLog')].kind # "no_close"

\* Sink i has emitted: some dispatch has called its emit.
HasEmitted(i) ==
    \E c \in CallIds : \E k \in 1..Len(calls[c].visits) :
        /\ calls[c].visits[k].sink = i
        /\ calls[c].visits[k].kind \in {"emitted", "emit_failed"}

\* The clients as they are held: a sink holds at most one client, which is
\* open and held by no other sink; a created client that no sink holds is
\* closed; a sink that has not emitted holds none.
ClientsAccountedFor ==
    /\ \A i \in 1..Len(sinks) :
          /\ client[i] # 0 => (client[i] \in 1..Len(clients) /\ clients[client[i]] = "open")
          /\ ~HasEmitted(i) => client[i] = 0
          /\ \A j \in 1..Len(sinks) : (i # j /\ client[i] # 0) => client[i] # client[j]
    /\ \A n \in 1..Len(clients) :
          (\A i \in 1..Len(sinks) : client[i] # n) => clients[n] = "closed"

\* What one step does to the client of each sink: an emit keeps the client
\* the sink holds and, when it holds none, creates one that did not exist;
\* a close leaves the sink without a client, the one it held closed; any
\* other step leaves the sink's client alone.
ClientStep ==
    \A i \in 1..Len(sinks) :
        /\ EmitOf(i) =>
              /\ client[i] # 0 => (client'[i] = client[i] /\ clients' = clients)
              /\ client[i] = 0 => (client'[i] = Len(clients) + 1
                                     /\ clients' = Append(clients, "open"))
        /\ CloseOf(i) =>
              /\ client'[i] = 0
              /\ client[i] # 0 => clients'[client[i]] = "closed"
              /\ Len(clients') = Len(clients)
        /\ (~EmitOf(i) /\ ~CloseOf(i)) => client'[i] = client[i]

\* C25 (lazy resource lifecycle of BetterstackSink): over any sequence of
\* emits and closes, a sink holds no client until its first emit, an emit
\* reuses the client the sink holds, a close releases it and leaves none
\* held, an emit after a close creates a new client; at every moment a sink
\* holds at most one open client and every client ever created is still
\* held or has been closed.
C25_LazyClientLifecycle == [][ClientStep]_vars /\ []ClientsAccountedFor

\* C25 witness: the first sink emitted twice before the logger was closed,
\* no more than one client per sink had been created by then and the close
\* closed them all; the sink has emitted again since, with a client created
\* after the close.
C25_Witness ==
    /\ ClosesDone >= 1
    /\ closer.snaps[1].visited[1] = Len(sinks) /\ closer.snaps[1].visited[2] = Len(sinks)
    /\ closer.snaps[1].visited[3] = 0
    /\ calls[1].visits[1].kind = "emitted" /\ calls[2].visits[1].kind = "emitted"
    /\ Len(closer.snaps[1].clients) \in 1..Len(sinks)
    /\ \A n \in 1..Len(closer.snaps[1].clients) : closer.snaps[1].clients[n] = "closed"
    /\ HasReturned(3) /\ calls[3].visits[1].kind = "emitted"
    /\ client[1] = Len(closer.snaps[1].clients) + 1
    /\ clients[client[1]] = "open"

----------------------------------------------------------------------------
(* SpecFile: one FileSink and the emits made through it, one after another *)

\* The number of emits made through the sink.
FileEmits == MaxCalls + 1

\* The payloads emitted: those json.dumps can write.
FilePayloads == {payload \in SinkPayloads : Serializable(payload)}

\* FileSink.__init__ for a path whose file holds the lines of file: the
\* sink, the file as it is, and no emit made yet.
FileSinkInit(append, ctx, file) ==
    /\ probe.op = "none"
    /\ probe' = [op |-> "file.sink",
                 args |-> <<FileSink(append, ctx, DefaultIncludedLevels), file, <<>>>>,
                 out |-> [raised |-> "none", file |-> file]]
    /\ UNCHANGED loggerVars

\* The next emit(payload) of that sink, on the file as the emits before it
\* left it; the payloads emitted are kept in order.
FileSinkEmitNext(payload) ==
    /\ probe.op = "file.sink"
    /\ Len(probe.args[3]) < FileEmits
    /\ probe' = [probe EXCEPT
                    !.args = <<probe.args[1], probe.args[2], Append(probe.args[3], payload)>>,
                    !.out = FileEmit(probe.args[1], probe.out.file, "none",
                                     EmitMerge(probe.args[1], payload))]
    /\ UNCHANGED loggerVars

NextFile ==
    \/ \E append \in BOOLEAN, ctx \in SinkContexts,
          file \in {<<>>, <<JsonDumps([message |-> "old"])>>} :
          FileSinkInit(append, ctx, file)
    \/ \E payload \in FilePayloads : FileSinkEmitNext(payload)

SpecFile == InitSinks /\ [][NextFile]_vars

\* C26 (FileSink keeps one line per entry): after n successful emits to one
\* FileSink the file holds the n JSON lines of the payloads, in the order of
\* the emits, after the file's earlier content when the sink appends and in
\* place of it when the sink overwrites.
C26_FileKeepsEveryEntry ==
    (probe.op = "file.sink" /\ probe.out.raised = "none") =>
        probe.out.file =
            (IF probe.args[1].mode = "a" \/ probe.args[3] = <<>> THEN probe.args[2] ELSE <<>>)
            \o [n \in 1..Len(probe.args[3]) |->
                    JsonDumps(EmitMerge(probe.args[1], probe.args[3][n]))]

----------------------------------------------------------------------------
(* SpecCaller: the caller's location in the payloads of a Logger and of an *)
(* AsyncLogger                                                            *)

\* _caller_info of the frame of Handle._run, the function of the event loop
\* that runs one step of a task.
EventLoopFrame ==
    [caller_file |-> "asyncio/events.py", caller_line |-> 80, caller_function |-> "_run"]

\* _caller_info(sys._getframe(1)) inside a coroutine method of AsyncLogger:
\* frame 1 is the frame that resumed the coroutine, which is the awaiting
\* coroutine at the call site for "await logger.log(...)" and the event loop
\* for a coroutine that was handed to a task (asyncio.create_task,
\* asyncio.gather).
AsyncCallerInfo(c, driver) == IF driver = "await" THEN CallerInfo(c) ELSE EventLoopFrame

\* AsyncLogger.log called as asyncio.create_task(logger.log(...)) or through
\* asyncio.gather, up to the await: the body starts in a step of the task.
AsyncLoggerLogTask(c, level, content) ==
    /\ mode = "async"
    /\ NextCall(c)
    /\ calls' = [calls EXCEPT ![c] =
                    [state |-> "submitted", message |-> Message(c), arg |-> level,
                     level |-> MemberByName(level), content |-> content,
                     caller |-> AsyncCallerInfo(c, "task"), payload |-> EmptyDict,
                     idx |-> 0, visits |-> <<>>, exc |-> "none",
                     opsAtIssue |-> ctxOp.seq, opsAtBuild |-> 0]]
    /\ UNCHANGED <<probe, mode, sinks, default_context, received, stderr, now,
                   ctxOp, budget, closer, closeLog, client, clients>>

CallerKeys == {"caller_file", "caller_line", "caller_function"}

\* Default contexts and contents without and with a key named like a caller
\* field.
CallerContexts == {EmptyDict, [caller_file |-> "context.py", service |-> "api"]}

CallerContents == {EmptyDict, [caller_function |-> "override"]}

InitCaller ==
    \E m \in {"sync", "async"} :
        InitWith(m, NumContextSinks, {TestSink(DefaultIncludedLevels, EmptyDict, "ok", "none")},
                 CallerContexts, MaxCalls, 0, 0)

NextCaller ==
    \/ \E c \in CallIds, content \in CallerContents : LoggerLog(c, "INFO", content)
    \/ \E c \in CallIds, content \in CallerContents :
          SyncLogEndpoint(c, "GET", "/users", [accept |-> "json"], NoneDict, "None",
                          SomeDict(content))
    \/ \E c \in CallIds, content \in CallerContents :
          SyncLogException(c, ScriptException, SomeDict(content))
    \/ \E c \in CallIds, content \in CallerContents :
          Quiet /\ AsyncLoggerLog(c, "INFO", content)
    \/ \E c \in CallIds, content \in CallerContents :
          AsyncLoggerLogTask(c, "INFO", content)
    \/ \E c \in CallIds, content \in CallerContents :
          /\ Quiet
          /\ AsyncLoggerLogEndpoint(c, "GET", "/users", [accept |-> "json"], NoneDict, "None",
                                    SomeDict(content))
    \/ \E c \in CallIds, content \in CallerContents :
          Quiet /\ AsyncLoggerLogException(c, ScriptException, SomeDict(content))
    \/ \E c \in CallIds : ThreadBuild(c)
    \/ \E c \in CallIds : DispatchStep(c)
    \/ \E c \in CallIds : CoreLogReturn(c)
    \/ \E c \in CallIds : AwaitResume(c)

SpecCaller == InitCaller /\ [][NextCaller]_vars

\* C27 (caller location in the payload): every payload built for a call of
\* log, log_endpoint or log_exception on a Logger or an AsyncLogger has the
\* keys caller_file, caller_line and caller_function; each has the value
\* the call content gives it when the content has the key, and otherwise
\* the value that describes the site of the call, whatever the logger's
\* default context says for that key; and the keys of the default context
\* that neither the caller location nor the content has keep the context's
\* value.
C27_CallerLocation ==
    \A c \in CallIds :
        Built(c) =>
            LET p == calls[c].payload IN
            /\ CallerKeys \subseteq DOMAIN p
            /\ \A k \in CallerKeys :
                  p[k] = IF k \in DOMAIN calls[c].content
                         THEN calls[c].content[k]
                         ELSE CallerInfo(c)[k]
            /\ \A k \in DOMAIN default_context \ (CallerKeys \cup DOMAIN calls[c].content) :
                  p[k] = default_context[k]

----------------------------------------------------------------------------
(* remove_context of keys that are all present, checked under SpecContext *)

\* C28 (remove_context succeeds whenever every requested key is present):
\* when the last context operation was a remove_context, on the logger or
\* on a sink, all of whose keys were keys of the context, a key named twice
\* included, it returned without error and the context is the previous one
\* without the keys named; and a remove_context that raised has removed
\* nothing.
C28_RemovePresentKeys ==
    ctxOp.op = "remove" =>
        /\ SeqToSet(ctxOp.keys) \subseteq DOMAIN ctxOp.before =>
              /\ ctxOp.raised = "none"
              /\ ContextOf(ctxOp.target) = Without(ctxOp.before, SeqToSet(ctxOp.keys))
        /\ ctxOp.raised # "none" => ContextOf(ctxOp.target) = ctxOp.before

----------------------------------------------------------------------------
(* SpecRace: worker threads of an AsyncLogger in the emit of one          *)
(* BetterstackSink, statement by statement                                *)

\* The sink the thread of call c is at.
RaceSink(c) == CurrentSink(calls[c])

\* _dispatch has called emit of the Betterstack sink for call c, and _emit
\* has entered _get_client: "if self._client is None" is evaluated.  The
\* thread remembers in held what it saw.
GetClientTest(c) ==
    /\ calls[c].state = "dispatch"
    /\ calls[c].idx <= Len(sinks)
    /\ sinks[RaceSink(c)].kind = "betterstack"
    /\ VisitKind(sinks[RaceSink(c)], PayloadOf(c)) \in {"emitted", "emit_failed"}
    /\ calls' = [calls EXCEPT ![c] =
                    Merge(@, [state |-> IF client[RaceSink(c)] = 0
                                        THEN "client_none" ELSE "client_held",
                              held |-> client[RaceSink(c)]])]
    /\ UNCHANGED <<probe, mode, sinks, default_context, received, stderr, now,
                   ctxOp, budget, closer, closeLog, client, clients>>

\* self._client = httpx.Client(timeout=self.timeout), by a thread that saw
\* no client: a client is created and the sink holds it from now on,
\* whatever it held.
GetClientCreate(c) ==
    /\ calls[c].state = "client_none"
    /\ clients' = Append(clients, "open")
    /\ client' = [client EXCEPT ![RaceSink(c)] = Len(clients) + 1]
    /\ calls' = [calls EXCEPT ![c].state = "client_held"]
    /\ UNCHANGED <<probe, mode, sinks, default_context, received, stderr, now,
                   ctxOp, budget, closer, closeLog>>

\* return self._client: the thread takes the client the sink holds now.
GetClientReturn(c) ==
    /\ calls[c].state = "client_held"
    /\ calls' = [calls EXCEPT ![c].state = "post", ![c].held = client[RaceSink(c)]]
    /\ UNCHANGED <<probe, mode, sinks, default_context, received, stderr, now,
                   ctxOp, budget, closer, closeLog, client, clients>>

\* client.post(...) and raise_for_status() with the client taken, and the
\* rest of the pass of the loop of _dispatch: the payload is sent, a
\* failure is reported on stderr, and the thread goes on to the next sink.
\* The visit keeps the client that was used.
ClientPost(c) ==
    /\ calls[c].state = "post"
    /\ LET i == RaceSink(c)
           kind == VisitKind(sinks[i], PayloadOf(c))
       IN /\ received' = IF kind = "emitted"
                         THEN [received EXCEPT ![i] =
                                 Append(@, EmitMerge(sinks[i], PayloadOf(c)))]
                         ELSE received
          /\ stderr' = IF kind = "emit_failed"
                       THEN Append(stderr, [call |-> c, sink |-> i, what |-> "failed"])
                       ELSE stderr
          /\ calls' = [calls EXCEPT ![c] =
                         [@ EXCEPT !.state = "dispatch",
                                   !.idx = @ + 1,
                                   !.visits = Append(@, [sink |-> i, kind |-> kind,
                                                         client |-> calls[c].held])]]
    /\ UNCHANGED <<probe, mode, sinks, default_context, now, ctxOp, budget, closer, closeLog,
                   client, clients>>

RaceSinks ==
    {BetterstackSink(DefaultIncludedLevels, EmptyDict, emit) : emit \in {"ok", "raises"}}

InitRace ==
    InitWith("async", NumContextSinks, RaceSinks, {EmptyDict}, MaxCalls, 0, MaxAsyncCloses)

\* Every log call made has returned to its caller.
AllReturned == \A c \in CallIds : calls[c].state \in {"unissued", "returned"}

NextRace ==
    \/ \E c \in CallIds : /\ closer.state = "idle"
                           /\ AsyncLoggerLog(c, "INFO", EmptyDict)
    \/ \E c \in CallIds : ThreadBuild(c)
    \/ \E c \in CallIds : GetClientTest(c)
    \/ \E c \in CallIds : GetClientCreate(c)
    \/ \E c \in CallIds : GetClientReturn(c)
    \/ \E c \in CallIds : ClientPost(c)
    \/ \E c \in CallIds : CoreLogReturn(c)
    \/ \E c \in CallIds : AwaitResume(c)
    \/ AllReturned /\ LoggerClose
    \/ CloseStep
    \/ CloseReturn
    \/ AwaitClose

SpecRace == InitRace /\ [][NextRace]_vars

\* C29 (no client leak under concurrent first use): log calls that dispatch
\* concurrently to a Betterstack sink that was never used create one client
\* for the sink, not more; all their sends use that client; and once the
\* logger has been closed after them no client that was created is open.
C29_NoClientLeak ==
    /\ Len(clients) <= Len(sinks)
    /\ \A c \in CallIds : \A k \in 1..Len(calls[c].visits) :
          /\ calls[c].visits[k].client # 0
          /\ \A d \in CallIds : \A m \in 1..Len(calls[d].visits) :
                calls[d].visits[m].sink = calls[c].visits[k].sink =>
                    calls[d].visits[m].client = calls[c].visits[k].client
    /\ (ClosesDone >= 1 /\ closer.state = "returned") =>
          \A n \in 1..Len(clients) : clients[n] = "closed"

----------------------------------------------------------------------------
(* Context ownership: _LoggerCore.__init__, BaseSink.__init__ and
   Config.create_logger *)

\* The mappings of a program are objects: objs is the sequence of the dicts
\* that exist, and a holder of a mapping holds the position of one of them.
\* "default_context or {}": a mapping that is given and not empty is kept as
\* the object it is; None and an empty mapping give a new empty dict.
OrNewDict(objs, given, ref) ==
    IF given /\ objs[ref] # EmptyDict
    THEN [objs |-> objs, ref |-> ref]
    ELSE [objs |-> Append(objs, EmptyDict), ref |-> Len(objs) + 1]

\* _LoggerCore.__init__(sinks, default_context), for the mapping at ref.
CoreInit(objs, given, ref) == OrNewDict(objs, given, ref)

\* BaseSink.__init__(default_context, included_levels), for the mapping at ref.
BaseSinkInit(objs, given, ref) == OrNewDict(objs, given, ref)

\* Two loggers and one sink, the mappings they hold, the mappings as the
\* last context operation found them, and who made that operation.
Owners(objs, loggers, sink) ==
    [objs |-> objs, loggers |-> loggers, sink |-> sink,
     before |-> objs, actor |-> "none", who |-> 0, ops |-> 0]

\* ctx = {...}; sink = TestSink(default_context=ctx or its own mapping);
\* Logger(sinks=[sink], default_context=ctx); Logger(default_context=ctx).
\* Object 1 is the caller's mapping, object 2 the sink's own mapping.
LoggersFromMapping(mapping, sink_mapping, sink_shares) ==
    /\ probe.op = "none"
    /\ LET s  == BaseSinkInit(<<mapping, sink_mapping>>, TRUE,
                              IF sink_shares THEN 1 ELSE 2)
           l1 == CoreInit(s.objs, TRUE, 1)
           l2 == CoreInit(l1.objs, TRUE, 1)
       IN probe' = [op |-> "owners", args |-> <<mapping, "mapping">>,
                    out |-> Owners(l2.objs, <<l1.ref, l2.ref>>, s.ref)]
    /\ UNCHANGED loggerVars

\* cfg = Config(default_context=ctx); cfg.create_logger() twice.  The model
\* field holds the caller's mapping or a copy of it, as the validation of the
\* field decides; create_logger passes the field itself, and gives each
\* logger a ConsoleSink() of its own, which has no mapping given.
LoggersFromConfig(mapping, copied) ==
    /\ probe.op = "none"
    /\ LET field == IF copied THEN 2 ELSE 1
           objs0 == IF copied THEN <<mapping, mapping>> ELSE <<mapping>>
           s1 == BaseSinkInit(objs0, FALSE, field)
           l1 == CoreInit(s1.objs, TRUE, field)
           s2 == BaseSinkInit(l1.objs, FALSE, field)
           l2 == CoreInit(s2.objs, TRUE, field)
       IN probe' = [op |-> "owners", args |-> <<mapping, "config">>,
                    out |-> Owners(l2.objs, <<l1.ref, l2.ref>>, s1.ref)]
    /\ UNCHANGED loggerVars

\* A context operation of holder `actor` number `who` that leaves the dict
\* at ref as `after`: dict.update, del and dict.clear change the object in
\* place, for every holder of it.
OwnerOp(actor, who, ref, after) ==
    /\ probe.op = "owners"
    /\ probe.out.ops < MaxCtxOps
    /\ probe' = [probe EXCEPT !.out = [@ EXCEPT !.objs = [@ EXCEPT ![ref] = after],
                                                !.before = probe.out.objs,
                                                !.actor = actor,
                                                !.who = who,
                                                !.ops = @ + 1]]
    /\ UNCHANGED loggerVars

\* Logger.update_context(**kwargs) on logger l.
OwnerUpdateContext(l, kwargs) ==
    /\ probe.op = "owners"
    /\ OwnerOp("logger", l, probe.out.loggers[l],
               CoreUpdateContext(probe.out.objs[probe.out.loggers[l]], kwargs))

\* Logger.remove_context(*keys) on logger l.
OwnerRemoveContext(l, keys) ==
    /\ probe.op = "owners"
    /\ OwnerOp("logger", l, probe.out.loggers[l],
               CoreRemoveContext(probe.out.objs[probe.out.loggers[l]], keys).after)

\* Logger.clear_context() on logger l.
OwnerClearContext(l) ==
    /\ probe.op = "owners"
    /\ OwnerOp("logger", l, probe.out.loggers[l],
               CoreClearContext(probe.out.objs[probe.out.loggers[l]]))

\* sink.update_context(**kwargs) on the sink.
OwnerSinkUpdate(kwargs) ==
    /\ probe.op = "owners"
    /\ OwnerOp("sink", 1, probe.out.sink,
               SinkUpdateContext(probe.out.objs[probe.out.sink], kwargs))

\* sink.remove_context(*keys) on the sink.
OwnerSinkRemove(keys) ==
    /\ probe.op = "owners"
    /\ OwnerOp("sink", 1, probe.out.sink,
               SinkRemoveContext(probe.out.objs[probe.out.sink], keys).after)

\* sink.clear_context() on the sink.
OwnerSinkClear ==
    /\ probe.op = "owners"
    /\ OwnerOp("sink", 1, probe.out.sink,
               SinkClearContext(probe.out.objs[probe.out.sink]))

\* The loggers constructed so far.
OwnerLoggers == IF probe.op = "owners" THEN DOMAIN probe.out.loggers ELSE {}

NextOwnership ==
    \/ \E mapping \in ContextContexts, sink_mapping \in SinkContexts, sink_shares \in BOOLEAN :
          LoggersFromMapping(mapping, sink_mapping, sink_shares)
    \/ \E mapping \in ContextContexts, copied \in BOOLEAN : LoggersFromConfig(mapping, copied)
    \/ \E l \in OwnerLoggers, kwargs \in ContextKwargs : OwnerUpdateContext(l, kwargs)
    \/ \E l \in OwnerLoggers, keys \in ContextKeys : OwnerRemoveContext(l, keys)
    \/ \E l \in OwnerLoggers : OwnerClearContext(l)
    \/ \E kwargs \in ContextKwargs : OwnerSinkUpdate(kwargs)
    \/ \E keys \in ContextKeys : OwnerSinkRemove(keys)
    \/ OwnerSinkClear

SpecOwnership == InitSinks /\ [][NextOwnership]_vars

\* The payload logger l builds for log("m", LogLevel.INFO) from the mappings objs.
OwnerPayload(objs, l) ==
    BuildPayload(objs[probe.out.loggers[l]], "m", "info", EmptyDict, CallerInfo(1), now)

\* C30 (context ownership): a context operation on one logger changes
\* neither the payloads of the other logger, nor the sink's context, nor the
\* mapping the caller passed at construction; a context operation on the sink
\* changes no logger's context.
C30_ContextOwnership ==
    probe.op = "owners" =>
        /\ probe.out.actor = "logger" =>
              /\ \A l \in OwnerLoggers \ {probe.out.who} :
                    OwnerPayload(probe.out.objs, l) = OwnerPayload(probe.out.before, l)
              /\ probe.out.objs[probe.out.sink] = probe.out.before[probe.out.sink]
              /\ probe.out.objs[1] = probe.out.before[1]
        /\ probe.out.actor = "sink" =>
              \A l \in OwnerLoggers :
                 probe.out.objs[probe.out.loggers[l]] = probe.out.before[probe.out.loggers[l]]

====
